---- MODULE Spec2Model ----
(***************************************************************************)
(* Fixed-region memory-pool allocator (pool.c, freelist.c, pool.h of the   *)
(* repository_after tree).                                                 *)
(*                                                                         *)
(* Encoding of machine integers.  A uint32_t value v is written as the     *)
(* integer congruent to v modulo 2^32 that lies in -2^31 .. 2^31-1 (its    *)
(* two's-complement reading), so 0xFFFFFFFF is -1 and 0xFFFFFFF8 is -8.    *)
(* AddU32 is addition modulo 2^32 on that encoding and ULt/UGe are the     *)
(* unsigned comparisons.  A size_t argument is a pair [hi, lo] standing    *)
(* for hi * 2^32 + lo, with lo encoded as a uint32_t.  The size_t counters *)
(* of the pool are integers; a counter that wrapped below zero shows as a  *)
(* negative number.                                                        *)
(*                                                                         *)
(* The caller's buffer is an array of 32-bit words, mem[i] being the word  *)
(* at byte offset 4*i.  A block header at offset o occupies the words      *)
(* o/4 (magic), o/4+1 (size), o/4+2 (next) and o/4+3 (flags).  Pointers    *)
(* are absolute addresses; the buffer starts at BufAddr and NULL is 0.     *)
(***************************************************************************)
EXTENDS Integers, Sequences, FiniteSets, TLC

\* ------------------------------------------------------------------ bounds
MaxPoolUnits == 12                 \* largest buffer, in 8-byte units
MaxPoolSize == 8 * MaxPoolUnits

\* ------------------------------------------------------- program constants
POOL_ALIGNMENT == 8
MIN_ALLOC_SIZE == 16
POOL_NULL_OFFSET == -1             \* 0xFFFFFFFF
POOL_MAGIC == 1347374924           \* 0x504F4F4C
FLAG_FREE == 1
\* mutant: a header without its flags word, 12 bytes
HEADER_SIZE_unpadded == 4 + 4 + 4
HEADER_SIZE == 16
NULL == 0
BufAddr == 4096                    \* address of the caller's aligned buffer

\* ------------------------------------------------------ 32-bit arithmetic
I32Max == 2147483647
I32Min == (-2147483647) - 1

AddU32(a, b) ==
    IF a >= 0 /\ b >= 0
    THEN IF a > I32Max - b THEN (a + I32Min) + (b + I32Min) ELSE a + b
    ELSE IF a < 0 /\ b < 0
         THEN IF a < I32Min - b THEN (a - I32Min) + (b - I32Min) ELSE a + b
         ELSE a + b

ULt(a, b) == IF (a < 0) = (b < 0) THEN a < b ELSE b < 0
UGe(a, b) == ~ULt(a, b)

\* a uint32_t converted to size_t and compared with a (small) size_t value
GtSize(u, n) == u < 0 \/ u > n

\* (value + alignment - 1u) & ~(alignment - 1u)
align_up_u32(value, alignment) ==
    LET s == AddU32(value, alignment - 1) IN s - (s % alignment)

is_aligned_ptr(ptr, alignment) == ptr % alignment = 0

\* size_t arguments
SizeT(h, l) == [hi |-> h, lo |-> l]
IsZeroSize(size) == size.hi = 0 /\ size.lo = 0

\* --------------------------------------------------------- header access
WordIdx == 0 .. (MaxPoolSize \div 4) - 1

\* header pointers are pool-relative offsets; NoHdr is the NULL header pointer
NoHdr == -1

hdr_from_offset(p, offset) ==
    IF offset = POOL_NULL_OFFSET THEN NoHdr
    ELSE IF GtSize(AddU32(offset, HEADER_SIZE), p.pool_size) THEN NoHdr
    ELSE offset

Magic(m, off) == m[off \div 4]
Size(m, off)  == m[(off \div 4) + 1]
NextOf(m, off) == m[(off \div 4) + 2]
Flags(m, off) == m[(off \div 4) + 3]
IsFree(m, off) == Flags(m, off) % 2 = 1

SetSize(m, off, v)  == [m EXCEPT ![(off \div 4) + 1] = v]
SetNext(m, off, v)  == [m EXCEPT ![(off \div 4) + 2] = v]
SetFlags(m, off, v) == [m EXCEPT ![(off \div 4) + 3] = v]
WriteHdr(m, off, mg, sz, nx, fl) ==
    [m EXCEPT ![off \div 4] = mg, ![(off \div 4) + 1] = sz,
              ![(off \div 4) + 2] = nx, ![(off \div 4) + 3] = fl]

block_end_offset_u32(block_offset, payload_size) ==
    AddU32(AddU32(block_offset, HEADER_SIZE), payload_size)

header_is_sane(p, m, hdr, hdr_offset) ==
    /\ hdr # NoHdr
    /\ Magic(m, hdr) = POOL_MAGIC
    /\ hdr_offset % POOL_ALIGNMENT = 0
    /\ UGe(Size(m, hdr), MIN_ALLOC_SIZE)
       \* 64-bit sum of the three terms, no wrap-around
    /\ ~(hdr_offset < 0 \/ Size(m, hdr) < 0
         \/ hdr_offset + HEADER_SIZE + Size(m, hdr) > p.pool_size)
    /\ \/ NextOf(m, hdr) = POOL_NULL_OFFSET
       \/ /\ NextOf(m, hdr) % POOL_ALIGNMENT = 0
          /\ ~GtSize(AddU32(NextOf(m, hdr), HEADER_SIZE), p.pool_size)

\* ------------------------------------------------------------- pool_init
ZeroMem == [i \in WordIdx |-> 0]

\* result of pool_init on a static (zero-filled) buffer; size is a size_t.
\* pool_size is a size_t too: pool_size holds its lower 32 bits and
\* pool_size_hi its upper 32 bits (0 for every pool that alloc and free run
\* on).  first->size is the uint32_t cast of usable_size - HEADER_SIZE.
pool_init(memory, size) ==
    LET usable_size == SizeT(size.hi, size.lo - (size.lo % POOL_ALIGNMENT))
        first_size  == AddU32(usable_size.lo, -HEADER_SIZE)
    IN [pool |-> [pool_start |-> memory, pool_size |-> usable_size.lo,
                  pool_size_hi |-> usable_size.hi,
                  free_list |-> 0, allocated |-> 0, free_space |-> first_size],
        mem  |-> WriteHdr(ZeroMem, 0, POOL_MAGIC, first_size,
                          POOL_NULL_OFFSET, FLAG_FREE)]

\* mutant: a buffer of exactly one header plus the minimum allocation is refused
pool_init_call_strict(pool_null, memory, size, p0, m0) ==
    LET usable_size == size.lo - (size.lo % POOL_ALIGNMENT) IN
    IF pool_null \/ memory = NULL THEN [rc |-> -1, pool |-> p0, mem |-> m0]
    ELSE IF ~is_aligned_ptr(memory, POOL_ALIGNMENT) THEN [rc |-> -1, pool |-> p0, mem |-> m0]
    ELSE IF size.hi = 0 /\ ~ULt(HEADER_SIZE + MIN_ALLOC_SIZE, usable_size) THEN [rc |-> -1, pool |-> p0, mem |-> m0]
    ELSE [rc |-> 0, pool |-> pool_init(memory, size).pool,
          mem |-> WriteHdr(m0, 0, POOL_MAGIC, AddU32(usable_size, -HEADER_SIZE),
                           POOL_NULL_OFFSET, FLAG_FREE)]

\* pool_init with its argument checks, called on a pool structure holding p0
\* (pool_null: the pool pointer is NULL) and a buffer holding m0
pool_init_call(pool_null, memory, size, p0, m0) ==
    LET usable_size == size.lo - (size.lo % POOL_ALIGNMENT) IN
    IF pool_null \/ memory = NULL THEN [rc |-> -1, pool |-> p0, mem |-> m0]
    ELSE IF ~is_aligned_ptr(memory, POOL_ALIGNMENT) THEN [rc |-> -1, pool |-> p0, mem |-> m0]
    ELSE IF size.hi = 0 /\ ULt(usable_size, HEADER_SIZE + MIN_ALLOC_SIZE) THEN [rc |-> -1, pool |-> p0, mem |-> m0]
    ELSE [rc |-> 0, pool |-> pool_init(memory, size).pool,
          mem |-> WriteHdr(m0, 0, POOL_MAGIC, AddU32(usable_size, -HEADER_SIZE),
                           POOL_NULL_OFFSET, FLAG_FREE)]

\* ------------------------------------------------------------ pool_alloc
AllocFail(p, m) == [pool |-> p, mem |-> m, ret |-> NULL]

\* mutant: the remainder header is placed at cur_off + request, inside the
\* payload just handed out
alloc_take_overlap(p, m, request, prev_off, cur_off) ==
    LET cur_payload == Size(m, cur_off)
        cur_next    == NextOf(m, cur_off)
        do_split    == UGe(cur_payload,
                           AddU32(AddU32(request, HEADER_SIZE), MIN_ALLOC_SIZE))
        new_off     == AddU32(cur_off, request)
        new_hdr     == hdr_from_offset(p, new_off)
    IN IF do_split /\ new_hdr = NoHdr THEN AllocFail(p, m)
       ELSE
       LET replacement_off == IF do_split THEN new_off ELSE cur_next
           m1 == IF do_split
                 THEN SetSize(WriteHdr(m, new_hdr, POOL_MAGIC,
                                       AddU32(AddU32(cur_payload, -request), -HEADER_SIZE),
                                       cur_next, FLAG_FREE),
                              cur_off, request)
                 ELSE m
           fs1 == IF do_split
                  THEN (p.free_space - request) - HEADER_SIZE
                  ELSE p.free_space - cur_payload
           m2 == SetNext(SetFlags(m1, cur_off, Flags(m1, cur_off) - (Flags(m1, cur_off) % 2)),
                         cur_off, POOL_NULL_OFFSET)
           p2 == [p EXCEPT !.free_space = fs1]
       IN IF prev_off = POOL_NULL_OFFSET
          THEN [pool |-> [p2 EXCEPT !.free_list = replacement_off,
                                    !.allocated = p.allocated + Size(m2, cur_off)],
                mem  |-> m2,
                ret  |-> p.pool_start + cur_off + HEADER_SIZE]
          ELSE LET prev == hdr_from_offset(p2, prev_off) IN
               IF prev = NoHdr \/ ~header_is_sane(p2, m2, prev, prev_off)
               THEN AllocFail(p2, m2)
               ELSE [pool |-> [p2 EXCEPT !.allocated = p.allocated + Size(m2, cur_off)],
                     mem  |-> SetNext(m2, prev, replacement_off),
                     ret  |-> p.pool_start + cur_off + HEADER_SIZE]

\* mutant: a split does not charge the carved header to free_space
alloc_take_keeps_header(p, m, request, prev_off, cur_off) ==
    LET cur_payload == Size(m, cur_off)
        cur_next    == NextOf(m, cur_off)
        do_split    == UGe(cur_payload,
                           AddU32(AddU32(request, HEADER_SIZE), MIN_ALLOC_SIZE))
        new_off     == AddU32(AddU32(cur_off, HEADER_SIZE), request)
        new_hdr     == hdr_from_offset(p, new_off)
    IN IF do_split /\ new_hdr = NoHdr THEN AllocFail(p, m)
       ELSE
       LET replacement_off == IF do_split THEN new_off ELSE cur_next
           m1 == IF do_split
                 THEN SetSize(WriteHdr(m, new_hdr, POOL_MAGIC,
                                       AddU32(AddU32(cur_payload, -request), -HEADER_SIZE),
                                       cur_next, FLAG_FREE),
                              cur_off, request)
                 ELSE m
           fs1 == IF do_split
                  THEN p.free_space - request
                  ELSE p.free_space - cur_payload
           m2 == SetNext(SetFlags(m1, cur_off, Flags(m1, cur_off) - (Flags(m1, cur_off) % 2)),
                         cur_off, POOL_NULL_OFFSET)
           p2 == [p EXCEPT !.free_space = fs1]
       IN IF prev_off = POOL_NULL_OFFSET
          THEN [pool |-> [p2 EXCEPT !.free_list = replacement_off,
                                    !.allocated = p.allocated + Size(m2, cur_off)],
                mem  |-> m2,
                ret  |-> p.pool_start + cur_off + HEADER_SIZE]
          ELSE LET prev == hdr_from_offset(p2, prev_off) IN
               IF prev = NoHdr \/ ~header_is_sane(p2, m2, prev, prev_off)
               THEN AllocFail(p2, m2)
               ELSE [pool |-> [p2 EXCEPT !.allocated = p.allocated + Size(m2, cur_off)],
                     mem  |-> SetNext(m2, prev, replacement_off),
                     ret  |-> p.pool_start + cur_off + HEADER_SIZE]

\* mutant: the block is split whenever a remainder header fits, however
\* small the remainder payload
alloc_take_split_any(p, m, request, prev_off, cur_off) ==
    LET cur_payload == Size(m, cur_off)
        cur_next    == NextOf(m, cur_off)
        do_split    == UGe(cur_payload,
                           AddU32(request, HEADER_SIZE))
        new_off     == AddU32(AddU32(cur_off, HEADER_SIZE), request)
        new_hdr     == hdr_from_offset(p, new_off)
    IN IF do_split /\ new_hdr = NoHdr THEN AllocFail(p, m)
       ELSE
       LET replacement_off == IF do_split THEN new_off ELSE cur_next
           m1 == IF do_split
                 THEN SetSize(WriteHdr(m, new_hdr, POOL_MAGIC,
                                       AddU32(AddU32(cur_payload, -request), -HEADER_SIZE),
                                       cur_next, FLAG_FREE),
                              cur_off, request)
                 ELSE m
           fs1 == IF do_split
                  THEN (p.free_space - request) - HEADER_SIZE
                  ELSE p.free_space - cur_payload
           m2 == SetNext(SetFlags(m1, cur_off, Flags(m1, cur_off) - (Flags(m1, cur_off) % 2)),
                         cur_off, POOL_NULL_OFFSET)
           p2 == [p EXCEPT !.free_space = fs1]
       IN IF prev_off = POOL_NULL_OFFSET
          THEN [pool |-> [p2 EXCEPT !.free_list = replacement_off,
                                    !.allocated = p.allocated + Size(m2, cur_off)],
                mem  |-> m2,
                ret  |-> p.pool_start + cur_off + HEADER_SIZE]
          ELSE LET prev == hdr_from_offset(p2, prev_off) IN
               IF prev = NoHdr \/ ~header_is_sane(p2, m2, prev, prev_off)
               THEN AllocFail(p2, m2)
               ELSE [pool |-> [p2 EXCEPT !.allocated = p.allocated + Size(m2, cur_off)],
                     mem  |-> SetNext(m2, prev, replacement_off),
                     ret  |-> p.pool_start + cur_off + HEADER_SIZE]

\* mutant: the allocated block keeps its next offset
alloc_take_keeps_next(p, m, request, prev_off, cur_off) ==
    LET cur_payload == Size(m, cur_off)
        cur_next    == NextOf(m, cur_off)
        do_split    == UGe(cur_payload,
                           AddU32(AddU32(request, HEADER_SIZE), MIN_ALLOC_SIZE))
        new_off     == AddU32(AddU32(cur_off, HEADER_SIZE), request)
        new_hdr     == hdr_from_offset(p, new_off)
    IN IF do_split /\ new_hdr = NoHdr THEN AllocFail(p, m)
       ELSE
       LET replacement_off == IF do_split THEN new_off ELSE cur_next
           m1 == IF do_split
                 THEN SetSize(WriteHdr(m, new_hdr, POOL_MAGIC,
                                       AddU32(AddU32(cur_payload, -request), -HEADER_SIZE),
                                       cur_next, FLAG_FREE),
                              cur_off, request)
                 ELSE m
           fs1 == IF do_split
                  THEN (p.free_space - request) - HEADER_SIZE
                  ELSE p.free_space - cur_payload
           m2 == SetFlags(m1, cur_off, Flags(m1, cur_off) - (Flags(m1, cur_off) % 2))
           p2 == [p EXCEPT !.free_space = fs1]
       IN IF prev_off = POOL_NULL_OFFSET
          THEN [pool |-> [p2 EXCEPT !.free_list = replacement_off,
                                    !.allocated = p.allocated + Size(m2, cur_off)],
                mem  |-> m2,
                ret  |-> p.pool_start + cur_off + HEADER_SIZE]
          ELSE LET prev == hdr_from_offset(p2, prev_off) IN
               IF prev = NoHdr \/ ~header_is_sane(p2, m2, prev, prev_off)
               THEN AllocFail(p2, m2)
               ELSE [pool |-> [p2 EXCEPT !.allocated = p.allocated + Size(m2, cur_off)],
                     mem  |-> SetNext(m2, prev, replacement_off),
                     ret  |-> p.pool_start + cur_off + HEADER_SIZE]

\* mutant: the remainder does not inherit the next offset of the block it
\* is carved from
alloc_take_remainder_last(p, m, request, prev_off, cur_off) ==
    LET cur_payload == Size(m, cur_off)
        cur_next    == NextOf(m, cur_off)
        do_split    == UGe(cur_payload,
                           AddU32(AddU32(request, HEADER_SIZE), MIN_ALLOC_SIZE))
        new_off     == AddU32(AddU32(cur_off, HEADER_SIZE), request)
        new_hdr     == hdr_from_offset(p, new_off)
    IN IF do_split /\ new_hdr = NoHdr THEN AllocFail(p, m)
       ELSE
       LET replacement_off == IF do_split THEN new_off ELSE cur_next
           m1 == IF do_split
                 THEN SetSize(WriteHdr(m, new_hdr, POOL_MAGIC,
                                       AddU32(AddU32(cur_payload, -request), -HEADER_SIZE),
                                       POOL_NULL_OFFSET, FLAG_FREE),
                              cur_off, request)
                 ELSE m
           fs1 == IF do_split
                  THEN (p.free_space - request) - HEADER_SIZE
                  ELSE p.free_space - cur_payload
           m2 == SetNext(SetFlags(m1, cur_off, Flags(m1, cur_off) - (Flags(m1, cur_off) % 2)),
                         cur_off, POOL_NULL_OFFSET)
           p2 == [p EXCEPT !.free_space = fs1]
       IN IF prev_off = POOL_NULL_OFFSET
          THEN [pool |-> [p2 EXCEPT !.free_list = replacement_off,
                                    !.allocated = p.allocated + Size(m2, cur_off)],
                mem  |-> m2,
                ret  |-> p.pool_start + cur_off + HEADER_SIZE]
          ELSE LET prev == hdr_from_offset(p2, prev_off) IN
               IF prev = NoHdr \/ ~header_is_sane(p2, m2, prev, prev_off)
               THEN AllocFail(p2, m2)
               ELSE [pool |-> [p2 EXCEPT !.allocated = p.allocated + Size(m2, cur_off)],
                     mem  |-> SetNext(m2, prev, replacement_off),
                     ret  |-> p.pool_start + cur_off + HEADER_SIZE]

\* the body of the if at pool.c:109, entered with a fitting free block cur
alloc_take(p, m, request, prev_off, cur_off) ==
    LET cur_payload == Size(m, cur_off)
        cur_next    == NextOf(m, cur_off)
        do_split    == UGe(cur_payload,
                           AddU32(AddU32(request, HEADER_SIZE), MIN_ALLOC_SIZE))
        new_off     == AddU32(AddU32(cur_off, HEADER_SIZE), request)
        new_hdr     == hdr_from_offset(p, new_off)
    IN IF do_split /\ new_hdr = NoHdr THEN AllocFail(p, m)
       ELSE
       LET replacement_off == IF do_split THEN new_off ELSE cur_next
           m1 == IF do_split
                 THEN SetSize(WriteHdr(m, new_hdr, POOL_MAGIC,
                                       AddU32(AddU32(cur_payload, -request), -HEADER_SIZE),
                                       cur_next, FLAG_FREE),
                              cur_off, request)
                 ELSE m
           fs1 == IF do_split
                  THEN (p.free_space - request) - HEADER_SIZE
                  ELSE p.free_space - cur_payload
           m2 == SetNext(SetFlags(m1, cur_off, Flags(m1, cur_off) - (Flags(m1, cur_off) % 2)),
                         cur_off, POOL_NULL_OFFSET)
           p2 == [p EXCEPT !.free_space = fs1]
       IN IF prev_off = POOL_NULL_OFFSET
          THEN [pool |-> [p2 EXCEPT !.free_list = replacement_off,
                                    !.allocated = p.allocated + Size(m2, cur_off)],
                mem  |-> m2,
                ret  |-> p.pool_start + cur_off + HEADER_SIZE]
          ELSE LET prev == hdr_from_offset(p2, prev_off) IN
               IF prev = NoHdr \/ ~header_is_sane(p2, m2, prev, prev_off)
               THEN AllocFail(p2, m2)
               ELSE [pool |-> [p2 EXCEPT !.allocated = p.allocated + Size(m2, cur_off)],
                     mem  |-> SetNext(m2, prev, replacement_off),
                     ret  |-> p.pool_start + cur_off + HEADER_SIZE]

\* mutant: a fitting block is passed over when the node after it fits as well
RECURSIVE alloc_scan_later(_, _, _, _, _)
alloc_scan_later(p, m, request, prev_off, cur_off) ==
    IF cur_off = POOL_NULL_OFFSET THEN AllocFail(p, m)
    ELSE LET cur == hdr_from_offset(p, cur_off) IN
         IF cur = NoHdr \/ ~header_is_sane(p, m, cur, cur_off)
         THEN AllocFail(p, m)
         ELSE LET nxt == hdr_from_offset(p, NextOf(m, cur)) IN
              IF IsFree(m, cur) /\ UGe(Size(m, cur), request)
                 /\ ~(nxt # NoHdr /\ header_is_sane(p, m, nxt, nxt)
                      /\ IsFree(m, nxt) /\ UGe(Size(m, nxt), request))
              THEN alloc_take(p, m, request, prev_off, cur_off)
              ELSE alloc_scan_later(p, m, request, cur_off, NextOf(m, cur))

\* the while loop at pool.c:101
RECURSIVE alloc_scan(_, _, _, _, _)
alloc_scan(p, m, request, prev_off, cur_off) ==
    IF cur_off = POOL_NULL_OFFSET THEN AllocFail(p, m)
    ELSE LET cur == hdr_from_offset(p, cur_off) IN
         IF cur = NoHdr \/ ~header_is_sane(p, m, cur, cur_off)
         THEN AllocFail(p, m)
         ELSE IF IsFree(m, cur) /\ UGe(Size(m, cur), request)
              THEN alloc_take(p, m, request, prev_off, cur_off)
              ELSE alloc_scan(p, m, request, cur_off, NextOf(m, cur))

\* request = align_up_u32(max((uint32_t)size, MIN_ALLOC_SIZE), POOL_ALIGNMENT)
alloc_request(size) ==
    align_up_u32(IF ULt(size.lo, MIN_ALLOC_SIZE) THEN MIN_ALLOC_SIZE ELSE size.lo,
                 POOL_ALIGNMENT)

pool_alloc(p, m, size) ==
    IF IsZeroSize(size) THEN AllocFail(p, m)
    ELSE alloc_scan(p, m, alloc_request(size), POOL_NULL_OFFSET, p.free_list)

\* ------------------------------------------------------------- pool_free
\* mutant: a merge does not credit the absorbed header to free_space
RECURSIVE coalesce_forward_nocredit(_, _, _, _)
coalesce_forward_nocredit(p, m, hdr, hdr_off) ==
    IF ~(hdr # NoHdr /\ IsFree(m, hdr) /\ NextOf(m, hdr) # POOL_NULL_OFFSET)
    THEN [pool |-> p, mem |-> m]
    ELSE LET next_off == NextOf(m, hdr)
             next     == hdr_from_offset(p, next_off)
         IN IF next = NoHdr \/ ~header_is_sane(p, m, next, next_off)
            THEN [pool |-> p, mem |-> m]
            ELSE IF ~IsFree(m, next) THEN [pool |-> p, mem |-> m]
            ELSE IF block_end_offset_u32(hdr_off, Size(m, hdr)) # next_off
                 THEN [pool |-> p, mem |-> m]
            ELSE coalesce_forward_nocredit(
                   p,
                   SetNext(SetSize(m, hdr,
                                   AddU32(AddU32(Size(m, hdr), HEADER_SIZE), Size(m, next))),
                           hdr, NextOf(m, next)),
                   hdr, hdr_off)

\* mutant: adjacent free blocks are left unmerged
coalesce_forward_never(p, m, hdr, hdr_off) == [pool |-> p, mem |-> m]

\* one pass of the loop at pool.c:173; returns the pool and the buffer
RECURSIVE coalesce_forward(_, _, _, _)
coalesce_forward(p, m, hdr, hdr_off) ==
    IF ~(hdr # NoHdr /\ IsFree(m, hdr) /\ NextOf(m, hdr) # POOL_NULL_OFFSET)
    THEN [pool |-> p, mem |-> m]
    ELSE LET next_off == NextOf(m, hdr)
             next     == hdr_from_offset(p, next_off)
         IN IF next = NoHdr \/ ~header_is_sane(p, m, next, next_off)
            THEN [pool |-> p, mem |-> m]
            ELSE IF ~IsFree(m, next) THEN [pool |-> p, mem |-> m]
            ELSE IF block_end_offset_u32(hdr_off, Size(m, hdr)) # next_off
                 THEN [pool |-> p, mem |-> m]
            ELSE coalesce_forward(
                   [p EXCEPT !.free_space = p.free_space + HEADER_SIZE],
                   SetNext(SetSize(m, hdr,
                                   AddU32(AddU32(Size(m, hdr), HEADER_SIZE), Size(m, next))),
                           hdr, NextOf(m, next)),
                   hdr, hdr_off)

\* mutant: the freed block is pushed on the head of the list, unsorted
free_scan_head(p, m, hdr_off, prev_off, cur_off) ==
    [ok |-> TRUE, prev_off |-> prev_off, cur_off |-> cur_off]

\* the scan for the sorted insertion point, pool.c:242-250;
\* ok = FALSE when a header on the way fails the sanity check
RECURSIVE free_scan(_, _, _, _, _)
free_scan(p, m, hdr_off, prev_off, cur_off) ==
    IF ~(cur_off # POOL_NULL_OFFSET /\ ULt(cur_off, hdr_off))
    THEN [ok |-> TRUE, prev_off |-> prev_off, cur_off |-> cur_off]
    ELSE LET cur == hdr_from_offset(p, cur_off) IN
         IF cur = NoHdr \/ ~header_is_sane(p, m, cur, cur_off)
         THEN [ok |-> FALSE, prev_off |-> prev_off, cur_off |-> cur_off]
         ELSE free_scan(p, m, hdr_off, cur_off, NextOf(m, cur))

\* mutant: the predecessor absorbs the freed block but keeps its own next
\* offset
free_merge_prev_keeps_next(p, m, hdr, hdr_off, prev_off) ==
    IF prev_off = POOL_NULL_OFFSET THEN [pool |-> p, mem |-> m]
    ELSE LET prev == hdr_from_offset(p, prev_off) IN
         IF prev # NoHdr /\ header_is_sane(p, m, prev, prev_off) /\ IsFree(m, prev)
            /\ block_end_offset_u32(prev_off, Size(m, prev)) = hdr_off
         THEN [pool |-> [p EXCEPT !.free_space = p.free_space + HEADER_SIZE],
               mem  |-> SetSize(m, prev,
                                AddU32(AddU32(Size(m, prev), HEADER_SIZE), Size(m, hdr)))]
         ELSE [pool |-> p, mem |-> m]

\* mutant: a freed block larger than its predecessor is not merged into it
free_merge_prev_short(p, m, hdr, hdr_off, prev_off) ==
    IF prev_off = POOL_NULL_OFFSET THEN [pool |-> p, mem |-> m]
    ELSE LET prev == hdr_from_offset(p, prev_off) IN
         IF prev # NoHdr /\ header_is_sane(p, m, prev, prev_off) /\ IsFree(m, prev)
            /\ block_end_offset_u32(prev_off, Size(m, prev)) = hdr_off
            /\ UGe(Size(m, prev), Size(m, hdr))
         THEN coalesce_forward(
                [p EXCEPT !.free_space = p.free_space + HEADER_SIZE],
                SetNext(SetSize(m, prev,
                                AddU32(AddU32(Size(m, prev), HEADER_SIZE), Size(m, hdr))),
                        prev, NextOf(m, hdr)),
                prev, prev_off)
         ELSE [pool |-> p, mem |-> m]

\* mutant: the freed block is never merged into its predecessor
free_merge_prev_never(p, m, hdr, hdr_off, prev_off) == [pool |-> p, mem |-> m]

\* pool.c:267-280, the merge into the list predecessor
free_merge_prev(p, m, hdr, hdr_off, prev_off) ==
    IF prev_off = POOL_NULL_OFFSET THEN [pool |-> p, mem |-> m]
    ELSE LET prev == hdr_from_offset(p, prev_off) IN
         IF prev # NoHdr /\ header_is_sane(p, m, prev, prev_off) /\ IsFree(m, prev)
            /\ block_end_offset_u32(prev_off, Size(m, prev)) = hdr_off
         THEN coalesce_forward(
                [p EXCEPT !.free_space = p.free_space + HEADER_SIZE],
                SetNext(SetSize(m, prev,
                                AddU32(AddU32(Size(m, prev), HEADER_SIZE), Size(m, hdr))),
                        prev, NextOf(m, hdr)),
                prev, prev_off)
         ELSE [pool |-> p, mem |-> m]

\* mutant: every accepted free credits a header to free_space, merged or not
free_accept_overcredit(p, m, hdr, hdr_off) ==
    LET m1 == SetFlags(m, hdr, IF IsFree(m, hdr) THEN Flags(m, hdr)
                                ELSE AddU32(Flags(m, hdr), FLAG_FREE))
        p1 == [p EXCEPT !.allocated = p.allocated - Size(m, hdr),
                        !.free_space = p.free_space + Size(m, hdr) + HEADER_SIZE]
        sc == free_scan(p1, m1, hdr_off, POOL_NULL_OFFSET, p1.free_list)
    IN IF ~sc.ok THEN [pool |-> p1, mem |-> m1]
       ELSE
       LET m2 == SetNext(m1, hdr, sc.cur_off) IN
       IF sc.prev_off = POOL_NULL_OFFSET
       THEN LET c == coalesce_forward([p1 EXCEPT !.free_list = hdr_off], m2, hdr, hdr_off)
            IN free_merge_prev(c.pool, c.mem, hdr, hdr_off, sc.prev_off)
       ELSE LET prev == hdr_from_offset(p1, sc.prev_off) IN
            IF prev = NoHdr \/ ~header_is_sane(p1, m2, prev, sc.prev_off)
            THEN [pool |-> p1, mem |-> m2]
            ELSE LET c == coalesce_forward(p1, SetNext(m2, prev, hdr_off), hdr, hdr_off)
                 IN free_merge_prev(c.pool, c.mem, hdr, hdr_off, sc.prev_off)

\* mutant: the freed block is flagged and counted but not put on the list
free_accept_unlinked(p, m, hdr, hdr_off) ==
    [pool |-> [p EXCEPT !.allocated = p.allocated - Size(m, hdr),
                        !.free_space = p.free_space + Size(m, hdr)],
     mem  |-> SetFlags(m, hdr, AddU32(Flags(m, hdr), FLAG_FREE))]

\* pool.c:234-282, entered once the pointer has passed every check
free_accept(p, m, hdr, hdr_off) ==
    LET m1 == SetFlags(m, hdr, IF IsFree(m, hdr) THEN Flags(m, hdr)
                                ELSE AddU32(Flags(m, hdr), FLAG_FREE))
        p1 == [p EXCEPT !.allocated = p.allocated - Size(m, hdr),
                        !.free_space = p.free_space + Size(m, hdr)]
        sc == free_scan(p1, m1, hdr_off, POOL_NULL_OFFSET, p1.free_list)
    IN IF ~sc.ok THEN [pool |-> p1, mem |-> m1]
       ELSE
       LET m2 == SetNext(m1, hdr, sc.cur_off) IN
       IF sc.prev_off = POOL_NULL_OFFSET
       THEN LET c == coalesce_forward([p1 EXCEPT !.free_list = hdr_off], m2, hdr, hdr_off)
            IN free_merge_prev(c.pool, c.mem, hdr, hdr_off, sc.prev_off)
       ELSE LET prev == hdr_from_offset(p1, sc.prev_off) IN
            IF prev = NoHdr \/ ~header_is_sane(p1, m2, prev, sc.prev_off)
            THEN [pool |-> p1, mem |-> m2]
            ELSE LET c == coalesce_forward(p1, SetNext(m2, prev, hdr_off), hdr, hdr_off)
                 IN free_merge_prev(c.pool, c.mem, hdr, hdr_off, sc.prev_off)

\* mutant: the free flag is not tested, a freed block is accepted again
pool_free_no_double_check(p, m, ptr) ==
    LET start   == p.pool_start
        end     == start + p.pool_size
        hdr_off == (ptr - start) - HEADER_SIZE
        hdr     == hdr_from_offset(p, hdr_off)
        Ignore  == [pool |-> p, mem |-> m, freed |-> FALSE]
    IN IF ptr = NULL THEN Ignore
       ELSE IF ptr < start + HEADER_SIZE \/ ptr >= end THEN Ignore
       ELSE IF ~is_aligned_ptr(ptr, POOL_ALIGNMENT) THEN Ignore
       ELSE IF hdr_off % POOL_ALIGNMENT # 0
               \/ GtSize(AddU32(hdr_off, HEADER_SIZE), p.pool_size) THEN Ignore
       ELSE IF hdr = NoHdr \/ ~header_is_sane(p, m, hdr, hdr_off) THEN Ignore
       ELSE LET r == free_accept(p, m, hdr, hdr_off)
            IN [pool |-> r.pool, mem |-> r.mem, freed |-> TRUE]

\* mutant: a pointer at or past the end of the pool is taken modulo the pool
\* size instead of being refused
pool_free_wraps(p, m, ptr) ==
    LET start   == p.pool_start
        end     == start + p.pool_size
        q       == IF ptr >= end THEN start + ((ptr - start) % p.pool_size) ELSE ptr
        hdr_off == (q - start) - HEADER_SIZE
        hdr     == hdr_from_offset(p, hdr_off)
        Ignore  == [pool |-> p, mem |-> m, freed |-> FALSE]
    IN IF ptr = NULL THEN Ignore
       ELSE IF q < start + HEADER_SIZE THEN Ignore
       ELSE IF ~is_aligned_ptr(q, POOL_ALIGNMENT) THEN Ignore
       ELSE IF hdr_off % POOL_ALIGNMENT # 0
               \/ GtSize(AddU32(hdr_off, HEADER_SIZE), p.pool_size) THEN Ignore
       ELSE IF hdr = NoHdr \/ ~header_is_sane(p, m, hdr, hdr_off) THEN Ignore
       ELSE IF IsFree(m, hdr) THEN Ignore
       ELSE LET r == free_accept(p, m, hdr, hdr_off)
            IN [pool |-> r.pool, mem |-> r.mem, freed |-> TRUE]

\* freed tells whether the pointer passed the checks of pool.c:196-232
pool_free(p, m, ptr) ==
    LET start   == p.pool_start
        end     == start + p.pool_size
        hdr_off == (ptr - start) - HEADER_SIZE
        hdr     == hdr_from_offset(p, hdr_off)
        Ignore  == [pool |-> p, mem |-> m, freed |-> FALSE]
    IN IF ptr = NULL THEN Ignore
       ELSE IF ptr < start + HEADER_SIZE \/ ptr >= end THEN Ignore
       ELSE IF ~is_aligned_ptr(ptr, POOL_ALIGNMENT) THEN Ignore
       ELSE IF hdr_off % POOL_ALIGNMENT # 0
               \/ GtSize(AddU32(hdr_off, HEADER_SIZE), p.pool_size) THEN Ignore
       ELSE IF hdr = NoHdr \/ ~header_is_sane(p, m, hdr, hdr_off) THEN Ignore
       ELSE IF IsFree(m, hdr) THEN Ignore
       ELSE LET r == free_accept(p, m, hdr, hdr_off)
            IN [pool |-> r.pool, mem |-> r.mem, freed |-> TRUE]

\* ------------------------------------------------------------ freelist.c
\* freelist_total_free: the loop at freelist.c:76, count iterations so far
FreelistSentinel == 100000

RECURSIVE total_free_walk(_, _, _, _, _)
total_free_walk(p, m, cur_off, count, total) ==
    IF ~(cur_off # POOL_NULL_OFFSET /\ count < FreelistSentinel) THEN total
    ELSE LET cur == hdr_from_offset(p, cur_off) IN
         IF cur = NoHdr THEN total
         ELSE total_free_walk(p, m, NextOf(m, cur), count + 1,
                              IF IsFree(m, cur) THEN total + Size(m, cur) ELSE total)

freelist_total_free(p, m) == total_free_walk(p, m, p.free_list, 0, 0)

\* freelist_count: the loop at freelist.c:56, count being its counter
RECURSIVE count_walk(_, _, _, _)
count_walk(p, m, cur_off, count) ==
    IF ~(cur_off # POOL_NULL_OFFSET /\ count < FreelistSentinel) THEN count
    ELSE LET cur == hdr_from_offset(p, cur_off) IN
         IF cur = NoHdr THEN count
         ELSE count_walk(p, m, NextOf(m, cur),
                         IF IsFree(m, cur) THEN count + 1 ELSE count)

freelist_count(p, m) == count_walk(p, m, p.free_list, 0)

\* pool_stats: (total, used, free_space), total as its upper and its lower
\* 32 bits
\* mutant: used and free are stored through each other's pointer
pool_stats_swapped(p) == <<p.pool_size_hi, p.pool_size, p.free_space, p.allocated>>

pool_stats(p) == <<p.pool_size_hi, p.pool_size, p.allocated, p.free_space>>

\* ------------------------------------------------------------ the machine
VARIABLES pool, mem, issued, last, snap, lock, thr

vars == <<pool, mem, issued, last, snap, lock, thr>>

\* threads that call into the pool, and the calls they make at most between
\* them: one each and one more
NThreads == 2
MaxCalls == NThreads + 1
Threads == 1 .. NThreads

\* a thread outside every call, with nothing loaded from the pool
NoRes ==
    [pool |-> [pool_start |-> NULL, pool_size |-> 0, pool_size_hi |-> 0,
               free_list |-> POOL_NULL_OFFSET,
               allocated |-> 0, free_space |-> 0],
     mem |-> ZeroMem, ret |-> <<>>, path |-> "none"]
IdleThread ==
    [pc |-> "idle", op |-> "none", arg |-> 0, ret |-> <<>>, path |-> "none",
     calls |-> 0, res |-> NoRes]

\* buffer sizes handed to pool_init
InitSizes == {56, 83, MaxPoolSize}

\* size arguments handed to pool_alloc: small ones, values within 16 of
\* 2^32 (lo = -1 is 0xFFFFFFFF) and values of 2^32 and above (hi = 1)
SmallSizes == {0, 1, 16, 17, 32, 40, 64}
AllocSizes == {SizeT(0, n) : n \in SmallSizes}
              \cup {SizeT(0, -1), SizeT(0, -8), SizeT(1, 16)}

\* pointers handed to pool_free: NULL, every 8-byte step from below the
\* buffer to beyond its end (issued, stale, interior, foreign) and two
\* unaligned addresses inside the buffer
FreePtrs == {NULL, BufAddr + 20, BufAddr + 33}
            \cup {BufAddr + 8 * k : k \in (-1) .. (MaxPoolUnits + 1)}

\* the free list as the sequence of <<offset, size>> of its nodes, walked
\* from the head for at most n nodes
RECURSIVE FreeListFrom(_, _, _, _)
FreeListFrom(p, m, off, n) ==
    IF off = POOL_NULL_OFFSET \/ n = 0 \/ hdr_from_offset(p, off) = NoHdr THEN <<>>
    ELSE <<(<<off, Size(m, off)>>)>> \o FreeListFrom(p, m, NextOf(m, off), n - 1)

FreeList(p, m) == FreeListFrom(p, m, p.free_list, p.pool_size \div POOL_ALIGNMENT)

Summary(p, m) ==
    [allocated |-> p.allocated, free_space |-> p.free_space, list |-> FreeList(p, m)]

NoSnap == [allocated |-> -1, free_space |-> -1, list |-> <<>>]

Init ==
    \E size \in InitSizes :
        LET r == pool_init(BufAddr, SizeT(0, size)) IN
        /\ pool = r.pool
        /\ mem = r.mem
        /\ issued = {}
        /\ last = [op |-> "init", size |-> SizeT(0, size), ptr |-> NULL, ok |-> TRUE]
        /\ snap = NoSnap
        /\ lock = {}
        /\ thr = [t \in Threads |-> IdleThread]

\* a call of pool_alloc(&pool, size)
Alloc(size) ==
    LET r == pool_alloc(pool, mem, size) IN
    /\ pool' = r.pool
    /\ mem' = r.mem
    /\ issued' = IF r.ret # NULL THEN issued \cup {r.ret} ELSE issued
    /\ last' = [op |-> "alloc", size |-> size, ptr |-> r.ret, ok |-> r.ret # NULL]
    /\ snap' = IF r.ret # NULL THEN Summary(pool, mem) ELSE NoSnap
    /\ UNCHANGED <<lock, thr>>

\* a call of pool_free(&pool, ptr)
Free(ptr) ==
    LET r == pool_free(pool, mem, ptr) IN
    /\ pool' = r.pool
    /\ mem' = r.mem
    /\ issued' = IF r.freed THEN issued \ {ptr} ELSE issued
    /\ last' = [op |-> "free", size |-> SizeT(0, 0), ptr |-> ptr, ok |-> r.freed]
    /\ snap' = IF last.op = "alloc" /\ last.ok /\ last.ptr = ptr THEN snap ELSE NoSnap
    /\ UNCHANGED <<lock, thr>>

Next ==
    \/ \E size \in AllocSizes : Alloc(size)
    \/ \E ptr \in FreePtrs : Free(ptr)

Spec == Init /\ [][Next]_vars

\* --------------------------------------------- pool_init and its arguments
\* contents of the pool structure and of the buffer before pool_init
StalePools ==
    {[pool_start |-> NULL, pool_size |-> 0, pool_size_hi |-> 0,
      free_list |-> POOL_NULL_OFFSET, allocated |-> 0, free_space |-> 0],
     [pool_start |-> BufAddr, pool_size |-> 64, pool_size_hi |-> 0,
      free_list |-> 32, allocated |-> 16, free_space |-> 16]}
StaleMems == {ZeroMem, [i \in WordIdx |-> POOL_MAGIC]}

\* buffer pointers and sizes handed to pool_init
InitPtrs == {NULL, BufAddr, BufAddr + 1, BufAddr + 4}
InitArgSizes == 0 .. MaxPoolSize
\* sizes of 2^32 bytes and above, as their lower 32 bits
InitWideSizes == {8, 16, 32, 83}
InitArgs == {SizeT(0, n) : n \in InitArgSizes} \cup {SizeT(1, n) : n \in InitWideSizes}

\* a pool_init call is about to be made
InitPending ==
    \E p0 \in StalePools, m0 \in StaleMems, pool_null \in BOOLEAN,
       memory \in InitPtrs, size \in InitArgs :
        /\ pool = p0
        /\ mem = m0
        /\ issued = {}
        /\ last = [op |-> IF pool_null THEN "init_call_null_pool" ELSE "init_call",
                   size |-> size, ptr |-> memory, ok |-> FALSE]
        /\ snap = NoSnap
        /\ lock = {}
        /\ thr = [t \in Threads |-> IdleThread]

\* the pending call of pool_init(&pool or NULL, memory, size) runs
InitCall ==
    /\ last.op \in {"init_call", "init_call_null_pool"}
    /\ LET r == pool_init_call(last.op = "init_call_null_pool", last.ptr,
                               last.size, pool, mem)
       IN /\ pool' = r.pool
          /\ mem' = r.mem
          /\ last' = [last EXCEPT !.op = IF last.op = "init_call" THEN "init"
                                         ELSE "init_null_pool",
                                  !.ok = r.rc = 0]
    /\ UNCHANGED <<issued, snap, lock, thr>>

NextInit == InitCall

SpecInit == InitPending /\ [][NextInit]_vars

\* ------------------------------------------------------------ properties
\* offsets of the nodes of the free list
FreeOffsets(p, m) == {FreeList(p, m)[i][1] : i \in 1 .. Len(FreeList(p, m))}

\* header offset of the block behind an issued payload pointer
HdrOfPtr(p, ptr) == (ptr - p.pool_start) - HEADER_SIZE

\* live block headers: those of the outstanding blocks and of the free blocks
LiveHdrs(p, m, iss) == {HdrOfPtr(p, a) : a \in iss} \cup FreeOffsets(p, m)

\* the request the interface promises for a size below 2^31:
\* max(16, size rounded up to a multiple of 8)
RoundedRequest(n) ==
    IF n < MIN_ALLOC_SIZE THEN MIN_ALLOC_SIZE
    ELSE ((n + POOL_ALIGNMENT - 1) \div POOL_ALIGNMENT) * POOL_ALIGNMENT

\* the byte ranges [a, a + n) and [b, b + k) have no byte in common
Disjoint(a, n, b, k) == n = 0 \/ k = 0 \/ a + n <= b \/ b + k <= a

\* usable payload capacity set by pool_init
Capacity(p) == p.pool_size - HEADER_SIZE

\* C1: after every operation the sum of the sizes of the free-flagged nodes
\* reachable from the free-list head equals the free_space counter.
ThmC1 == freelist_total_free(pool, mem) = pool.free_space

\* a free that merged or relinked has just completed and two free blocks remain
WitC1 ==
    /\ last.op = "free" /\ last.ok
    /\ Len(FreeList(pool, mem)) = 2
    /\ pool.allocated > 0

\* C2: the payloads of the outstanding blocks are pairwise disjoint, lie
\* inside the pool and overlap no live block header, and pool_alloc never
\* returns an address that is still outstanding.
PayloadsSafe ==
    /\ \A a \in issued :
          LET h == HdrOfPtr(pool, a) IN
          /\ h >= 0
          /\ a + Size(mem, h) <= pool.pool_start + pool.pool_size
          /\ \A b \in issued :
                a # b => Disjoint(a, Size(mem, h), b, Size(mem, HdrOfPtr(pool, b)))
          /\ \A g \in LiveHdrs(pool, mem, issued) :
                Disjoint(a, Size(mem, h), pool.pool_start + g, HEADER_SIZE)

ThmC2 ==
    /\ []PayloadsSafe
    /\ [][(last'.op = "alloc" /\ last'.ok) => last'.ptr \notin issued]_vars

\* an alloc has reused a freed block below a block that is still outstanding
WitC2 ==
    /\ last.op = "alloc" /\ last.ok
    /\ Cardinality(issued) >= 2
    /\ \E b \in issued : b > last.ptr

\* C3: whenever allocated is 0 the free list is the single block at offset 0
\* of size pool_size - 16 and free_space is the value set by pool_init.
ClaimC3 ==
    pool.allocated = 0 =>
        /\ FreeList(pool, mem) = <<(<<0, pool.pool_size - HEADER_SIZE>>)>>
        /\ pool.free_space = Capacity(pool)

\* C4: a successful pool_alloc immediately followed by pool_free of the
\* returned pointer restores allocated, free_space and the free list.
ClaimC4 ==
    (last.op = "free" /\ snap # NoSnap) => Summary(pool, mem) = snap

\* C5 as stated: allocated + free_space equals the usable payload capacity.
ClaimC5 == pool.allocated + pool.free_space = Capacity(pool)

\* C5 as amended: allocated + free_space falls short of the usable payload
\* capacity by exactly one header for every live block beyond the first.
ThmC5 ==
    pool.allocated + pool.free_space
        + HEADER_SIZE * (Cardinality(LiveHdrs(pool, mem, issued)) - 1)
    = Capacity(pool)

\* splits and frees have happened and three blocks are live
WitC5 ==
    /\ Cardinality(LiveHdrs(pool, mem, issued)) = 3
    /\ last.op = "free" /\ last.ok
    /\ pool.allocated > 0

\* C6: allocated + free_space + 16 * (number of live block headers) is at
\* most the pool size, and neither counter wraps below zero.
ThmC6 ==
    /\ pool.allocated + pool.free_space
         + HEADER_SIZE * Cardinality(LiveHdrs(pool, mem, issued)) <= pool.pool_size
    /\ pool.allocated >= 0
    /\ pool.free_space >= 0

\* a free has been accepted while other blocks stay allocated and free
WitC6 ==
    /\ last.op = "free" /\ last.ok
    /\ Cardinality(issued) = 2
    /\ pool.free_space > 0

\* C7: pool_alloc(size) returns non-NULL exactly when size > 0 and some block
\* on the free list has size >= max(16, size rounded up to a multiple of 8),
\* and a NULL return leaves the pool and every header unchanged.
FitsRounded(p, m, size) ==
    /\ size.hi = 0
    /\ size.lo > 0
    /\ \E i \in 1 .. Len(FreeList(p, m)) :
          IsFree(m, FreeList(p, m)[i][1])
          /\ FreeList(p, m)[i][2] >= RoundedRequest(size.lo)

ClaimC7 ==
    [][last'.op = "alloc" =>
          /\ last'.ok <=> FitsRounded(pool, mem, last'.size)
          /\ ~last'.ok => (pool' = pool /\ mem' = mem)]_vars

\* C8: for every requested size pool_alloc returns NULL or the payload of a
\* block whose declared size is at least the requested size.
ClaimC8 ==
    (last.op = "alloc" /\ last.ok) =>
        /\ last.size.hi = 0
        /\ UGe(Size(mem, HdrOfPtr(pool, last.ptr)), last.size.lo)

\* C9: every non-NULL pointer returned by pool_alloc is at a pool-relative
\* offset that is a multiple of 8.
ThmC9 ==
    /\ (last.op = "alloc" /\ last.ok) =>
          (last.ptr - pool.pool_start) % POOL_ALIGNMENT = 0
    /\ \A a \in issued : (a - pool.pool_start) % POOL_ALIGNMENT = 0

\* an alloc has returned the payload of a block carved behind an odd multiple of 8
WitC9 ==
    /\ last.op = "alloc" /\ last.ok
    /\ (last.ptr - pool.pool_start) % 16 = 8
    /\ Cardinality(issued) >= 2

\* C10: whenever pool_alloc(s) splits the matched block, allocated grows by
\* exactly max(16, s rounded up to the next multiple of 8).
ClaimC10 ==
    [][(/\ last'.op = "alloc" /\ last'.ok
        /\ Len(FreeList(pool', mem')) = Len(FreeList(pool, mem)))
       => /\ last'.size.hi = 0
          /\ last'.size.lo > 0
          /\ pool'.allocated = pool.allocated + RoundedRequest(last'.size.lo)]_vars

\* the blocks met by stepping from offset 0 over header and payload, n at most
RECURSIVE BlocksFrom(_, _, _, _)
BlocksFrom(p, m, off, n) ==
    IF n = 0 \/ off < 0 \/ off + HEADER_SIZE > p.pool_size THEN {}
    ELSE {off} \cup BlocksFrom(p, m, off + HEADER_SIZE + Size(m, off), n - 1)

LiveBlocks(p, m) == BlocksFrom(p, m, 0, MaxPoolSize \div 8)

\* the sequence s without its entries for offset b
WithoutNode(s, b) == SelectSeq(s, LAMBDA e : e[1] # b)

\* C11: pool_alloc splits the matched block exactly when its payload is at
\* least request + 16 + 16; otherwise it grants the whole block: allocated
\* grows and free_space shrinks by the whole payload and the free list loses
\* the node without gaining a remainder.
ThmC11 ==
    [][(last'.op = "alloc" /\ last'.ok) =>
          LET b == HdrOfPtr(pool, last'.ptr)
              P == Size(mem, b)
              r == alloc_request(last'.size)
          IN IF P >= r + HEADER_SIZE + MIN_ALLOC_SIZE
             THEN /\ Size(mem', b) = r
                  /\ FreeOffsets(pool', mem')
                       = (FreeOffsets(pool, mem) \ {b}) \cup {b + HEADER_SIZE + r}
                  /\ pool'.allocated = pool.allocated + r
             ELSE /\ Size(mem', b) = P
                  /\ pool'.allocated = pool.allocated + P
                  /\ pool'.free_space = pool.free_space - P
                  /\ FreeList(pool', mem') = WithoutNode(FreeList(pool, mem), b)]_vars

\* a whole block larger than the request has been granted
WitC11 ==
    /\ last.op = "alloc" /\ last.ok
    /\ Size(mem, HdrOfPtr(pool, last.ptr)) > alloc_request(last.size)
    /\ alloc_request(last.size) >= MIN_ALLOC_SIZE

\* ptr is the payload address of a block that is not outstanding and whose
\* header carries the magic tag and the free flag
AlreadyFreed(p, m, iss, ptr) ==
    /\ ptr \notin iss
    /\ ptr >= p.pool_start + HEADER_SIZE
    /\ ptr < p.pool_start + p.pool_size
    /\ ptr % POOL_ALIGNMENT = 0
    /\ Magic(m, HdrOfPtr(p, ptr)) = POOL_MAGIC
    /\ IsFree(m, HdrOfPtr(p, ptr))

\* C12: pool_free on a pointer whose block has already been freed, also one
\* since merged into a neighbour, changes neither the pool nor any header.
ThmC12 ==
    [][(last'.op = "free" /\ AlreadyFreed(pool, mem, issued, last'.ptr)) =>
          (pool' = pool /\ mem' = mem /\ issued' = issued /\ ~last'.ok)]_vars

\* a second free of a block that was merged into its neighbour has returned
WitC12 ==
    /\ last.op = "free" /\ ~last.ok
    /\ AlreadyFreed(pool, mem, issued, last.ptr)
    /\ HdrOfPtr(pool, last.ptr) \notin FreeOffsets(pool, mem)
    /\ pool.allocated > 0

\* C18: a live block has its free flag set exactly when it is reachable from
\* the free-list head; an allocated block has the null next offset, every
\* free block is on the list once, and freelist_count is the number of free
\* live blocks.
ThmC18 ==
    /\ FreeOffsets(pool, mem) \subseteq LiveBlocks(pool, mem)
    /\ \A b \in LiveBlocks(pool, mem) :
          /\ IsFree(mem, b) <=> b \in FreeOffsets(pool, mem)
          /\ ~IsFree(mem, b) => NextOf(mem, b) = POOL_NULL_OFFSET
    /\ Len(FreeList(pool, mem)) = Cardinality(FreeOffsets(pool, mem))
    /\ freelist_count(pool, mem)
         = Cardinality({b \in LiveBlocks(pool, mem) : IsFree(mem, b)})

\* an allocated block lies between two free blocks
WitC18 ==
    /\ Len(FreeList(pool, mem)) = 2
    /\ \E b \in LiveBlocks(pool, mem) :
          /\ ~IsFree(mem, b)
          /\ FreeList(pool, mem)[1][1] < b
          /\ b < FreeList(pool, mem)[2][1]

\* C19: the offsets along the free list are strictly increasing.
ThmC19 ==
    \A i \in 1 .. Len(FreeList(pool, mem)) :
        LET nx == NextOf(mem, FreeList(pool, mem)[i][1]) IN
        nx = POOL_NULL_OFFSET \/ nx > FreeList(pool, mem)[i][1]

\* a block was freed behind a free block that stays separate from it
WitC19 ==
    /\ last.op = "free" /\ last.ok
    /\ Len(FreeList(pool, mem)) = 2
    /\ FreeList(pool, mem)[2][1] = HdrOfPtr(pool, last.ptr)

\* C20: pool_init fails exactly when the pool or buffer pointer is NULL, the
\* buffer is not 8-byte aligned or the size rounded down to a multiple of 8
\* is below 32, and a failing call writes neither the pool structure nor the
\* buffer.
InitMustFail(l) ==
    \/ l.op = "init_call_null_pool"
    \/ l.ptr = NULL
    \/ l.ptr % POOL_ALIGNMENT # 0
    \/ l.size.hi = 0 /\ (l.size.lo \div POOL_ALIGNMENT) * POOL_ALIGNMENT < 32

ThmC20 ==
    [][last.op \in {"init_call", "init_call_null_pool"} =>
          /\ last'.ok <=> ~InitMustFail(last)
          /\ ~last'.ok => (pool' = pool /\ mem' = mem)]_vars

\* pool_init has refused an aligned buffer of 24 to 31 bytes
WitC20 ==
    /\ last.op = "init" /\ ~last.ok
    /\ last.ptr = BufAddr
    /\ last.size.lo >= 24

\* ------------------------------------------- callers that write payloads
\* A caller may store any bytes in a payload it holds.  WritePayload stores
\* the four words of ForgedWords at an 8-aligned place inside the payload of
\* an outstanding block, while the outstanding payloads are still intact.
ForgedWords == <<POOL_MAGIC, MIN_ALLOC_SIZE, POOL_NULL_OFFSET, 0>>

WritePayload(a, k) ==
    /\ last.op # "hang"
    /\ a \in issued
    /\ k % POOL_ALIGNMENT = 0
    /\ k + HEADER_SIZE <= Size(mem, HdrOfPtr(pool, a))
    /\ PayloadsSafe
    /\ mem' = WriteHdr(mem, (a - pool.pool_start) + k, ForgedWords[1],
                       ForgedWords[2], ForgedWords[3], ForgedWords[4])
    /\ last' = [op |-> "write", size |-> SizeT(0, k), ptr |-> a, ok |-> TRUE]
    /\ snap' = NoSnap
    /\ UNCHANGED <<pool, issued, lock, thr>>

\* the loop at pool.c:101 leaves within n visits; it has no bound of its own,
\* and a walk longer than the number of 8-aligned offsets is on a cycle
RECURSIVE AllocScanEnds(_, _, _, _, _)
AllocScanEnds(p, m, request, cur_off, n) ==
    IF cur_off = POOL_NULL_OFFSET THEN TRUE
    ELSE IF n = 0 THEN FALSE
    ELSE LET cur == hdr_from_offset(p, cur_off) IN
         IF cur = NoHdr \/ ~header_is_sane(p, m, cur, cur_off) THEN TRUE
         ELSE IF IsFree(m, cur) /\ UGe(Size(m, cur), request) THEN TRUE
         ELSE AllocScanEnds(p, m, request, NextOf(m, cur), n - 1)

AllocReturns(p, m, size) ==
    IsZeroSize(size)
    \/ AllocScanEnds(p, m, alloc_request(size), p.free_list, (p.pool_size \div POOL_ALIGNMENT) + 1)

\* the loop at pool.c:242 leaves within n visits
RECURSIVE FreeScanEnds(_, _, _, _, _)
FreeScanEnds(p, m, hdr_off, cur_off, n) ==
    IF ~(cur_off # POOL_NULL_OFFSET /\ ULt(cur_off, hdr_off)) THEN TRUE
    ELSE IF n = 0 THEN FALSE
    ELSE LET cur == hdr_from_offset(p, cur_off) IN
         IF cur = NoHdr \/ ~header_is_sane(p, m, cur, cur_off) THEN TRUE
         ELSE FreeScanEnds(p, m, hdr_off, NextOf(m, cur), n - 1)

\* ptr passes the checks of pool.c:196-232
FreeAccepts(p, m, ptr) ==
    LET hdr_off == (ptr - p.pool_start) - HEADER_SIZE IN
    /\ ptr # NULL
    /\ ~(ptr < p.pool_start + HEADER_SIZE \/ ptr >= p.pool_start + p.pool_size)
    /\ is_aligned_ptr(ptr, POOL_ALIGNMENT)
    /\ header_is_sane(p, m, hdr_from_offset(p, hdr_off), hdr_off)
    /\ ~IsFree(m, hdr_off)

FreeReturns(p, m, ptr) ==
    FreeAccepts(p, m, ptr) =>
        LET hdr_off == (ptr - p.pool_start) - HEADER_SIZE IN
        FreeScanEnds(p, SetFlags(m, hdr_off, AddU32(Flags(m, hdr_off), FLAG_FREE)),
                     hdr_off, p.free_list, (p.pool_size \div POOL_ALIGNMENT) + 1)

AllocW(size) == last.op # "hang" /\ AllocReturns(pool, mem, size) /\ Alloc(size)

FreeW(ptr) == last.op # "hang" /\ FreeReturns(pool, mem, ptr) /\ Free(ptr)

\* pool_alloc(size) never leaves its loop: the call does not return
AllocHang(size) ==
    /\ last.op # "hang"
    /\ ~AllocReturns(pool, mem, size)
    /\ last' = [op |-> "hang", size |-> size, ptr |-> NULL, ok |-> FALSE]
    /\ snap' = NoSnap
    /\ UNCHANGED <<pool, mem, issued, lock, thr>>

NextWrite ==
    \/ \E size \in AllocSizes : AllocW(size)
    \/ \E ptr \in FreePtrs : FreeW(ptr)
    \/ \E a \in FreePtrs, k \in {0, 8, 16} : WritePayload(a, k)
    \/ \E size \in AllocSizes : AllocHang(size)

\* the pool of the split-remainder test, 56 bytes
InitWrite == Init /\ pool.pool_size = 56

SpecWrite == InitWrite /\ [][NextWrite]_vars

\* C13: pool_free of a pointer that is not the payload address of a currently
\* allocated block leaves allocated, free_space, the free-list head and every
\* header unchanged.
ClaimC13 ==
    [][(last'.op = "free" /\ last'.ptr \notin issued) =>
          (pool' = pool /\ mem' = mem)]_vars

\* ------------------------------------------------ threads and the pool lock
\* the return statement a pool_alloc call leaves through
RECURSIVE alloc_exit(_, _, _, _, _)
alloc_exit(p, m, request, prev_off, cur_off) ==
    IF cur_off = POOL_NULL_OFFSET THEN "no_fit"
    ELSE LET cur == hdr_from_offset(p, cur_off) IN
         IF cur = NoHdr \/ ~header_is_sane(p, m, cur, cur_off)
         THEN "corruption_abort"
         ELSE IF IsFree(m, cur) /\ UGe(Size(m, cur), request)
              THEN IF alloc_take(p, m, request, prev_off, cur_off).ret = NULL
                   THEN "corruption_abort" ELSE "success"
              ELSE alloc_exit(p, m, request, cur_off, NextOf(m, cur))

\* the return statement a pool_free call leaves through
free_exit(p, m, ptr) ==
    LET start   == p.pool_start
        hdr_off == (ptr - start) - HEADER_SIZE
        hdr     == hdr_from_offset(p, hdr_off)
    IN IF ptr < start + HEADER_SIZE \/ ptr >= start + p.pool_size THEN "invalid_pointer"
       ELSE IF ~is_aligned_ptr(ptr, POOL_ALIGNMENT) THEN "invalid_pointer"
       ELSE IF hdr_off % POOL_ALIGNMENT # 0
               \/ GtSize(AddU32(hdr_off, HEADER_SIZE), p.pool_size) THEN "invalid_pointer"
       ELSE IF hdr = NoHdr \/ ~header_is_sane(p, m, hdr, hdr_off) THEN "invalid_pointer"
       ELSE IF IsFree(m, hdr) THEN "double_free"
       ELSE LET m1 == SetFlags(m, hdr, AddU32(Flags(m, hdr), FLAG_FREE))
                sc == free_scan(p, m1, hdr_off, POOL_NULL_OFFSET, p.free_list)
            IN IF ~sc.ok THEN "corruption_abort"
               ELSE IF sc.prev_off # POOL_NULL_OFFSET
                       /\ ~header_is_sane(p, m1, hdr_from_offset(p, sc.prev_off), sc.prev_off)
                    THEN "corruption_abort"
               ELSE "success"

\* freelist_dump: the numbers printed by the loop at freelist.c:23, in order:
\* count, off, size, is_free, next_off for every node
DumpSentinel == 1000

RECURSIVE dump_walk(_, _, _, _, _)
dump_walk(p, m, cur_off, count, out) ==
    IF ~(cur_off # POOL_NULL_OFFSET /\ count < DumpSentinel) THEN out
    ELSE LET cur == hdr_from_offset(p, cur_off) IN
         IF cur = NoHdr THEN out \o <<count, cur_off>>
         ELSE dump_walk(p, m, NextOf(m, cur), count + 1,
                        out \o <<count, cur_off, Size(m, cur),
                                 IF IsFree(m, cur) THEN 1 ELSE 0, NextOf(m, cur)>>)

freelist_dump(p, m) == dump_walk(p, m, p.free_list, 0, <<>>)

\* the locked part of a call of the public interface on pool p and buffer m:
\* the pool and buffer it leaves, what it returns or prints, and its exit
Run(op, arg, p, m) ==
    CASE op = "pool_alloc" ->
           LET r == pool_alloc(p, m, SizeT(0, arg)) IN
           [pool |-> r.pool, mem |-> r.mem, ret |-> <<r.ret>>,
            path |-> alloc_exit(p, m, alloc_request(SizeT(0, arg)),
                                POOL_NULL_OFFSET, p.free_list)]
      [] op = "pool_free" ->
           LET r == pool_free(p, m, arg) IN
           [pool |-> r.pool, mem |-> r.mem, ret |-> <<>>, path |-> free_exit(p, m, arg)]
      [] op = "pool_stats" ->
           [pool |-> p, mem |-> m, ret |-> pool_stats(p), path |-> "success"]
      [] op = "freelist_count" ->
           [pool |-> p, mem |-> m, ret |-> <<freelist_count(p, m)>>, path |-> "success"]
      [] op = "freelist_total_free" ->
           [pool |-> p, mem |-> m, ret |-> <<freelist_total_free(p, m)>>, path |-> "success"]
      [] op = "freelist_dump" ->
           [pool |-> p, mem |-> m, ret |-> freelist_dump(p, m), path |-> "success"]

\* pool_alloc(pool, 0) and pool_free(pool, NULL) return before the lock
ReturnsUnlocked(op, arg) ==
    \/ op = "pool_alloc" /\ arg = 0
    \/ op = "pool_free" /\ arg = NULL

\* the calls the threads make
ConcSizes == {0, 1, 32}
ConcPtrs == {NULL, BufAddr + 16, BufAddr + 48}
ConcCalls ==
    {<<"pool_alloc", n>> : n \in ConcSizes}
    \cup {<<"pool_free", a>> : a \in ConcPtrs}
    \cup {<<f, 0>> : f \in {"pool_stats", "freelist_count",
                            "freelist_total_free", "freelist_dump"}}

\* the calls threads 1 .. n have entered so far
RECURSIVE CallsMade(_)
CallsMade(n) == IF n = 0 THEN 0 ELSE thr[n].calls + CallsMade(n - 1)

\* thread t enters a call, one of at most `most` calls of the run; the checks
\* before the lock may return at once
Call(t, op, arg, most) ==
    /\ thr[t].pc = "idle"
    /\ CallsMade(NThreads) < most
    /\ thr' = [thr EXCEPT ![t] =
                 IF ReturnsUnlocked(op, arg)
                 THEN [pc |-> "idle", op |-> op, arg |-> arg,
                       ret |-> IF op = "pool_alloc" THEN <<NULL>> ELSE <<>>,
                       path |-> "unlocked", calls |-> thr[t].calls + 1, res |-> NoRes]
                 ELSE [pc |-> "wait", op |-> op, arg |-> arg, ret |-> <<>>,
                       path |-> "none", calls |-> thr[t].calls + 1, res |-> NoRes]]
    /\ UNCHANGED <<pool, mem, issued, last, snap, lock>>

\* mutant: the lock is taken whether or not it is held
Acquire_nowait(t) ==
    /\ thr[t].pc = "wait"
    /\ lock' = lock \cup {t}
    /\ thr' = [thr EXCEPT ![t].pc = "held"]
    /\ UNCHANGED <<pool, mem, issued, last, snap>>

\* pthread_mutex_lock returns in thread t
Acquire(t) ==
    /\ thr[t].pc = "wait"
    /\ lock = {}
    /\ lock' = lock \cup {t}
    /\ thr' = [thr EXCEPT ![t].pc = "held"]
    /\ UNCHANGED <<pool, mem, issued, last, snap>>

\* mutant: the lock is given up once the pool has been read
Load_then_unlock(t) ==
    /\ thr[t].pc = "held"
    /\ thr' = [thr EXCEPT ![t].pc = "loaded",
                          ![t].res = Run(thr[t].op, thr[t].arg, pool, mem)]
    /\ lock' = lock \ {t}
    /\ UNCHANGED <<pool, mem, issued, last, snap>>

\* thread t reads the pool and the headers and works out what to write
Load(t) ==
    /\ thr[t].pc = "held"
    /\ thr' = [thr EXCEPT ![t].pc = "loaded",
                          ![t].res = Run(thr[t].op, thr[t].arg, pool, mem)]
    /\ UNCHANGED <<pool, mem, issued, last, snap, lock>>

\* thread t writes the pool and the headers and has its result
Store(t) ==
    /\ thr[t].pc = "loaded"
    /\ pool' = thr[t].res.pool
    /\ mem' = thr[t].res.mem
    /\ issued' = IF thr[t].op = "pool_alloc" /\ thr[t].res.ret # <<NULL>>
                 THEN issued \cup {thr[t].res.ret[1]}
                 ELSE IF thr[t].op = "pool_free"
                         /\ thr[t].res.path \in {"success", "corruption_abort"}
                      THEN issued \ {thr[t].arg}
                      ELSE issued
    /\ thr' = [thr EXCEPT ![t].pc = "stored", ![t].ret = thr[t].res.ret,
                          ![t].path = thr[t].res.path, ![t].res = NoRes]
    /\ UNCHANGED <<last, snap, lock>>

\* mutant: the return taken when nothing fits leaves the lock held
Release_unless_no_fit(t) ==
    /\ thr[t].pc = "stored"
    /\ lock' = IF thr[t].path = "no_fit" THEN lock ELSE lock \ {t}
    /\ thr' = [thr EXCEPT ![t].pc = "idle"]
    /\ UNCHANGED <<pool, mem, issued, last, snap>>

\* mutant: the return taken for a rejected pointer leaves the lock held
Release_unless_invalid(t) ==
    /\ thr[t].pc = "stored"
    /\ lock' = IF thr[t].path = "invalid_pointer" THEN lock ELSE lock \ {t}
    /\ thr' = [thr EXCEPT ![t].pc = "idle"]
    /\ UNCHANGED <<pool, mem, issued, last, snap>>

\* pthread_mutex_unlock and the return that follows it, on every exit
Release(t) ==
    /\ thr[t].pc = "stored"
    /\ lock' = lock \ {t}
    /\ thr' = [thr EXCEPT ![t].pc = "idle"]
    /\ UNCHANGED <<pool, mem, issued, last, snap>>

NextConc ==
    \/ \E t \in Threads, c \in ConcCalls : Call(t, c[1], c[2], MaxCalls)
    \/ \E t \in Threads : Acquire(t)
    \/ \E t \in Threads : Load(t)
    \/ \E t \in Threads : Store(t)
    \/ \E t \in Threads : Release(t)

\* the pool after pool_init on the largest buffer, or after a stray write has
\* since cleared the magic tag of the first header
ConcPoolSize == MaxPoolSize

InitConc ==
    LET r == pool_init(BufAddr, SizeT(0, ConcPoolSize)) IN
    /\ pool = r.pool
    /\ mem \in {r.mem, [r.mem EXCEPT ![0] = 0]}
    /\ issued = {}
    /\ last = [op |-> "init", size |-> SizeT(0, ConcPoolSize), ptr |-> NULL, ok |-> TRUE]
    /\ snap = NoSnap
    /\ lock = {}
    /\ thr = [t \in Threads |-> IdleThread]

SpecConc == InitConc /\ [][NextConc]_vars

\* as many calls as there are threads, under a fair lock: a thread that keeps
\* finding the lock free in the end gets it, and a thread inside the lock
\* keeps running.  Load(t) is enabled exactly
\* when thread t is at "held" and always leaves it, so its weak fairness is
\* that t is not at "held" for ever.
NextFair ==
    \/ \E t \in Threads, c \in ConcCalls : Call(t, c[1], c[2], NThreads)
    \/ \E t \in Threads : Acquire(t)
    \/ \E t \in Threads : Load(t)
    \/ \E t \in Threads : Store(t)
    \/ \E t \in Threads : Release(t)

FairSpecConc ==
    /\ InitConc
    /\ [][NextFair]_vars
    /\ \A t \in Threads :
          /\ SF_vars(Acquire(t))
          /\ []<>(thr[t].pc # "held")
          /\ WF_vars(Store(t))
          /\ WF_vars(Release(t))

\* the first header still carries its magic tag: no stray write has happened
Intact == Magic(mem, 0) = POOL_MAGIC

\* thread t has made one call, a pool_alloc of a non-zero size, and is back
AllocOnce(t) ==
    /\ thr[t].calls = 1
    /\ thr[t].op = "pool_alloc"
    /\ thr[t].arg > 0
    /\ thr[t].pc = "idle"

\* bytes the requests of threads 1 .. n take, a header each
RECURSIVE RoomNeeded(_)
RoomNeeded(n) ==
    IF n = 0 THEN 0
    ELSE RoundedRequest(thr[n].arg) + HEADER_SIZE + RoomNeeded(n - 1)

\* every thread has called pool_alloc once on the fresh pool, which had room
AllAllocOnce ==
    /\ Intact
    /\ \A t \in Threads : AllocOnce(t)
    /\ RoomNeeded(NThreads) <= pool.pool_size

\* C14: when every thread calls pool_alloc once on a freshly initialised pool
\* with room for all the requests, then however the calls interleave every
\* result is non-NULL and 8-byte aligned, the results are pairwise distinct
\* and their payloads do not overlap.
ThmC14 ==
    AllAllocOnce =>
        /\ \A t \in Threads :
              /\ thr[t].ret # <<NULL>>
              /\ thr[t].ret[1] % POOL_ALIGNMENT = 0
        /\ \A t \in Threads, u \in Threads :
              t # u =>
                 /\ thr[t].ret[1] # thr[u].ret[1]
                 /\ Disjoint(thr[t].ret[1], Size(mem, HdrOfPtr(pool, thr[t].ret[1])),
                             thr[u].ret[1], Size(mem, HdrOfPtr(pool, thr[u].ret[1])))

\* all threads are back from their one pool_alloc and the last thread got the
\* lock before the first one
WitC14 ==
    /\ AllAllocOnce
    /\ thr[NThreads].ret # <<NULL>>
    /\ thr[1].ret # <<NULL>>
    /\ thr[NThreads].ret[1] < thr[1].ret[1]

\* thread t writes the pool in this step
Stores(t) == thr[t].pc = "loaded" /\ thr'[t].pc = "stored"

\* thread t makes a call that returns before the lock in this step
ReturnsAtOnce(t) ==
    thr[t].pc = "idle" /\ thr'[t].pc = "idle" /\ thr'[t].calls > thr[t].calls

\* every step is one call taking effect whole on the pool as it stands, with
\* the result the call gives when run alone, or leaves pool and buffer alone
LinearStep ==
    /\ (\A t \in Threads : ~Stores(t)) => (pool' = pool /\ mem' = mem)
    /\ \A t \in Threads :
          Stores(t) =>
              LET s == Run(thr[t].op, thr[t].arg, pool, mem) IN
              /\ pool' = s.pool
              /\ mem' = s.mem
              /\ thr'[t].ret = s.ret
    /\ \A t \in Threads :
          ReturnsAtOnce(t) =>
              thr'[t].ret = Run(thr'[t].op, thr'[t].arg, pool, mem).ret

\* the invariants of the single-threaded pool
Structural ==
    /\ ThmC1
    /\ PayloadsSafe
    /\ ThmC5
    /\ ThmC6
    /\ ThmC18
    /\ ThmC19

\* C15: every execution of pool_alloc, pool_free, pool_stats and the
\* introspection calls from several threads is linearizable: each call takes
\* effect at one step between its entry and its return, as the same call run
\* alone on the pool at that step, and the structural invariants hold
\* whenever the lock is free.
ThmC15 ==
    /\ [][LinearStep]_vars
    /\ []((lock = {} /\ Intact) => Structural)

\* a pool_alloc has taken effect with two blocks now outstanding while another
\* thread waits for the lock inside pool_free of the first block
WitC15 ==
    \E t \in Threads, u \in Threads :
        /\ thr[t].pc = "stored" /\ thr[t].op = "pool_alloc" /\ thr[t].path = "success"
        /\ Cardinality(issued) = 2
        /\ thr[u].pc = "wait" /\ thr[u].op = "pool_free" /\ thr[u].arg \in issued

\* the positions of a call between pthread_mutex_lock and pthread_mutex_unlock
InBody == {"held", "loaded", "stored"}

\* at most one thread holds the lock, and the holders are the threads inside
\* the locked part of a call
LockInv ==
    /\ Cardinality(lock) <= 1
    /\ \A t \in Threads : t \in lock <=> thr[t].pc \in InBody

\* a step that reads or writes the pool is taken by a thread that holds the
\* lock before and after it
LockedAccess ==
    (pool' # pool \/ mem' # mem \/ \E t \in Threads : thr'[t].res # thr[t].res)
    => \E t \in lock : t \in lock' /\ thr[t].pc \in {"held", "loaded"} /\ thr'[t] # thr[t]

\* C16: the calls read and write the pool only while holding the lock, at
\* most one thread holds it, and every return path releases it, so the lock
\* is free whenever no call is in progress.
ThmC16 ==
    /\ []LockInv
    /\ [][LockedAccess]_vars

\* every call has returned and the lock is free after one thread left
\* pool_alloc through the no-fit return and another through the success return
WitC16 ==
    /\ lock = {}
    /\ \A t \in Threads : thr[t].pc = "idle"
    /\ \E t \in Threads : thr[t].op = "pool_alloc" /\ thr[t].path = "no_fit"
    /\ \E t \in Threads : thr[t].op = "pool_alloc" /\ thr[t].path = "success"

\* some thread inside a call can take a step
Progress ==
    (\E t \in Threads : thr[t].pc # "idle")
    => \E t \in Threads :
          \/ thr[t].pc = "wait" /\ lock = {}
          \/ thr[t].pc \in InBody

\* the loops of pool_alloc and pool_free end for every call the threads make
LoopsEnd ==
    /\ \A n \in ConcSizes : AllocReturns(pool, mem, SizeT(0, n))
    /\ \A a \in ConcPtrs : FreeReturns(pool, mem, a)

\* C17: on an uncorrupted pool with a fair lock every call that has started
\* returns: the loops inside the lock end, the threads never all wait on
\* each other, and a thread inside a call gets back out of it.
ThmC17 ==
    /\ \A t \in Threads : (Intact /\ thr[t].pc # "idle") ~> (thr[t].pc = "idle")
    /\ [](Intact => (Progress /\ LoopsEnd))

\* a thread waits for the lock while another thread, inside pool_free, holds it
WitC17 ==
    /\ Intact
    /\ \E t \in Threads, u \in Threads :
          /\ thr[t].pc = "wait"
          /\ u \in lock
          /\ thr[u].op = "pool_free"
          /\ thr[u].pc = "loaded"

\* ------------------------------------------------------- further properties
\* the size_t s rounded down to a multiple of 8, and s - 16
RoundDown8(s) == SizeT(s.hi, s.lo - (s.lo % POOL_ALIGNMENT))
Minus16(s) ==
    IF ULt(s.lo, HEADER_SIZE) THEN SizeT(s.hi - 1, AddU32(s.lo, -HEADER_SIZE))
    ELSE SizeT(s.hi, AddU32(s.lo, -HEADER_SIZE))

\* C21: after a successful pool_init(buffer, size) the pool holds one block:
\* a free block at offset 0 with payload usable_size - 16 and null next; the
\* free-list head is 0, allocated is 0, free_space is usable_size - 16 and
\* pool_stats reports total = usable_size, where usable_size is size rounded
\* down to a multiple of 8.
ClaimC21 ==
    [][(last.op \in {"init_call", "init_call_null_pool"} /\ last'.ok) =>
          LET usable_size == RoundDown8(last.size)
              payload     == Minus16(usable_size)
          IN /\ pool'.free_list = 0
             /\ Magic(mem', 0) = POOL_MAGIC
             /\ IsFree(mem', 0)
             /\ NextOf(mem', 0) = POOL_NULL_OFFSET
             /\ payload.hi = 0 /\ Size(mem', 0) = payload.lo
             /\ pool'.allocated = 0
             /\ payload.hi = 0 /\ pool'.free_space = payload.lo
             /\ pool_stats(pool')[1] = usable_size.hi
             /\ pool_stats(pool')[2] = usable_size.lo
             /\ pool_stats(pool')[3] = 0]_vars

\* the end-to-end scenario on an 80-byte buffer: the pool and the buffer after
\* init, p1 = alloc(32), p2 = alloc(16), free(p2), free(p1)
ScenInit == pool_init(BufAddr, SizeT(0, 80))
ScenA1 == pool_alloc(ScenInit.pool, ScenInit.mem, SizeT(0, 32))
ScenA2 == pool_alloc(ScenA1.pool, ScenA1.mem, SizeT(0, 16))
ScenF2 == pool_free(ScenA2.pool, ScenA2.mem, ScenA2.ret)
ScenF1 == pool_free(ScenF2.pool, ScenF2.mem, ScenA1.ret)

\* the pool and the buffer are those of scenario step s
AtScen(s) == pool = s.pool /\ mem = s.mem

\* C22: on an 80-byte pool the trace init, p1 = alloc(32), p2 = alloc(16),
\* free(p2), free(p1) goes as follows: both allocs succeed and p2 is the last
\* block of the pool; after free(p2) the free list is one block of 16 bytes;
\* after free(p1) it is one block of 64 bytes with used = 0 and
\* free_space = 64.
ThmC22 ==
    [][/\ (AtScen(ScenInit) /\ last'.op = "alloc" /\ last'.size = SizeT(0, 32))
            => last'.ok
       /\ (AtScen(ScenA1) /\ last'.op = "alloc" /\ last'.size = SizeT(0, 16))
            => /\ last'.ok
               /\ last'.ptr + Size(mem', HdrOfPtr(pool', last'.ptr))
                    = pool'.pool_start + pool'.pool_size
       /\ (AtScen(ScenA2) /\ last'.op = "free" /\ last'.ptr = ScenA2.ret)
            => /\ last'.ok
               /\ Len(FreeList(pool', mem')) = 1
               /\ FreeList(pool', mem')[1][2] = 16
       /\ (AtScen(ScenF2) /\ last'.op = "free" /\ last'.ptr = ScenA1.ret)
            => /\ last'.ok
               /\ Len(FreeList(pool', mem')) = 1
               /\ FreeList(pool', mem')[1][2] = 64
               /\ pool_stats(pool')[3] = 0
               /\ pool_stats(pool')[4] = 64]_vars

\* the scenario has run to its end: the last call freed p1 and the buffer
\* still shows the header carved for p2
WitC22 ==
    /\ AtScen(ScenF1)
    /\ pool.pool_size = 80
    /\ last.op = "free" /\ last.ok /\ last.ptr = BufAddr + HEADER_SIZE
    /\ Magic(mem, 48) = POOL_MAGIC
    /\ issued = {}

\* ---------------------------------------------- stray writes over headers
\* A stray write of the caller clears the magic tag of the free-list header
\* at offset off.
Stomp(off) ==
    /\ off \in FreeOffsets(pool, mem)
    /\ Magic(mem, off) = POOL_MAGIC
    /\ mem' = [mem EXCEPT ![off \div 4] = 0]
    /\ last' = [op |-> "stomp", size |-> SizeT(0, 0), ptr |-> pool.pool_start + off,
                ok |-> TRUE]
    /\ snap' = NoSnap
    /\ UNCHANGED <<pool, issued, lock, thr>>

\* offsets a header can lie at
HdrOffsets == {8 * k : k \in 0 .. MaxPoolUnits}

\* callers free only NULL and the payload addresses they hold
FreeHeld(ptr) == ptr \in issued \cup {NULL} /\ Free(ptr)

NextStomp ==
    \/ \E size \in AllocSizes : Alloc(size)
    \/ \E ptr \in FreePtrs : FreeHeld(ptr)
    \/ \E off \in HdrOffsets : Stomp(off)

\* the 80-byte pool of the end-to-end scenario
InitStomp == Init /\ pool.pool_size = 80

SpecStomp == InitStomp /\ [][NextStomp]_vars

\* the search of pool_alloc meets a header that fails the sanity predicate
RECURSIVE AllocSearchAborts(_, _, _, _)
AllocSearchAborts(p, m, request, cur_off) ==
    IF cur_off = POOL_NULL_OFFSET THEN FALSE
    ELSE LET cur == hdr_from_offset(p, cur_off) IN
         IF cur = NoHdr \/ ~header_is_sane(p, m, cur, cur_off) THEN TRUE
         ELSE IF IsFree(m, cur) /\ UGe(Size(m, cur), request) THEN FALSE
         ELSE AllocSearchAborts(p, m, request, NextOf(m, cur))

\* pool_free accepts ptr and its scan for the insertion point meets a header
\* that fails the sanity predicate
FreeScanAborts(p, m, ptr) ==
    /\ FreeAccepts(p, m, ptr)
    /\ LET hdr_off == (ptr - p.pool_start) - HEADER_SIZE IN
       ~free_scan(p, SetFlags(m, hdr_off, AddU32(Flags(m, hdr_off), FLAG_FREE)),
                  hdr_off, POOL_NULL_OFFSET, p.free_list).ok

\* C23, pool_alloc: a call whose search meets a header that fails the sanity
\* predicate leaves the pool and every header as they were.
AllocAbortClean ==
    [][(/\ last'.op = "alloc"
        /\ ~IsZeroSize(last'.size)
        /\ AllocSearchAborts(pool, mem, alloc_request(last'.size), pool.free_list))
       => (pool' = pool /\ mem' = mem)]_vars

\* C23: if a free-list header fails the sanity predicate while pool_alloc
\* searches the list or while pool_free scans for the sorted insertion point,
\* the call returns with allocated, free_space, the free-list head and every
\* block header as they were before the call.
ClaimC23 ==
    [][/\ (/\ last'.op = "alloc"
           /\ ~IsZeroSize(last'.size)
           /\ AllocSearchAborts(pool, mem, alloc_request(last'.size), pool.free_list))
          => (pool' = pool /\ mem' = mem)
       /\ (last'.op = "free" /\ FreeScanAborts(pool, mem, last'.ptr))
          => (pool' = pool /\ mem' = mem)]_vars

\* --------------------------------------------------------- read operations
ReadOps == {"pool_stats", "freelist_count", "freelist_total_free", "freelist_dump"}

\* C24: pool_stats, freelist_count, freelist_total_free and freelist_dump
\* leave allocated, free_space, pool_size, the free-list head and every
\* header unchanged, and pool_stats returns (pool_size, allocated, free_space)
\* of the state it is called in.
ThmC24 ==
    [][\A t \in Threads :
          (Stores(t) /\ thr[t].op \in ReadOps) =>
             /\ pool' = pool
             /\ mem' = mem
             /\ thr[t].op = "pool_stats" =>
                   thr'[t].ret = <<pool.pool_size_hi, pool.pool_size,
                                   pool.allocated, pool.free_space>>]_vars

\* a thread has read the statistics of a pool with a block in use
WitC24 ==
    \E t \in Threads :
        /\ thr[t].pc = "stored"
        /\ thr[t].op = "pool_stats"
        /\ pool.allocated > 0
        /\ thr[t].ret = <<0, pool.pool_size, pool.allocated, pool.free_space>>
        /\ pool.allocated # pool.free_space

\* ---------------------------------------------------------------- first fit
\* offsets of the free-list nodes whose payload holds request bytes
Fits(p, m, request) == {off \in FreeOffsets(p, m) : UGe(Size(m, off), request)}

\* C25: the block pool_alloc returns is the lowest-offset free block whose
\* size is at least the request, and after a free of p an allocation that the
\* freed block holds returns an address at or below p.
ThmC25 ==
    [][(last'.op = "alloc" /\ ~IsZeroSize(last'.size)) =>
          LET r == alloc_request(last'.size) IN
          /\ last'.ok =>
                /\ HdrOfPtr(pool, last'.ptr) \in Fits(pool, mem, r)
                /\ \A off \in Fits(pool, mem, r) : HdrOfPtr(pool, last'.ptr) <= off
          /\ (last.op = "free" /\ last.ok
                /\ UGe(Size(mem, HdrOfPtr(pool, last.ptr)), r)) =>
                (last'.ok /\ last'.ptr <= last.ptr)]_vars

\* pool_alloc has granted the lowest fitting block whole although a free block
\* at a higher offset holds the request more tightly
WitC25 ==
    /\ last.op = "alloc"
    /\ last.ok
    /\ \E off \in FreeOffsets(pool, mem) :
          /\ off > HdrOfPtr(pool, last.ptr)
          /\ UGe(Size(mem, off), alloc_request(last.size))
          /\ Size(mem, off) < Size(mem, HdrOfPtr(pool, last.ptr))

\* ------------------------------------------------------------------- split
\* the free list of a state, as offsets
Offsets(list) == [i \in 1 .. Len(list) |-> list[i][1]]

\* C26: a split leaves the allocated block at b with size r and null next,
\* creates a free block at b + 16 + r of size P - r - 16 that inherits the
\* next offset and takes the place of the matched block in the free list, and
\* moves free_space down by r + 16 and allocated up by r.
ThmC26 ==
    [][(last'.op = "alloc" /\ last'.ok) =>
          LET b == HdrOfPtr(pool, last'.ptr)
              P == Size(mem, b)
              r == alloc_request(last'.size)
              n == AddU32(AddU32(b, HEADER_SIZE), r)
              L == Offsets(FreeList(pool, mem))
          IN UGe(P, AddU32(AddU32(r, HEADER_SIZE), MIN_ALLOC_SIZE)) =>
                /\ Magic(mem', b) = POOL_MAGIC
                /\ ~IsFree(mem', b)
                /\ Size(mem', b) = r
                /\ NextOf(mem', b) = POOL_NULL_OFFSET
                /\ Magic(mem', n) = POOL_MAGIC
                /\ IsFree(mem', n)
                /\ Size(mem', n) = AddU32(AddU32(P, -r), -HEADER_SIZE)
                /\ NextOf(mem', n) = NextOf(mem, b)
                /\ Offsets(FreeList(pool', mem'))
                     = [i \in 1 .. Len(L) |-> IF L[i] = b THEN n ELSE L[i]]
                /\ IF pool.free_list = b
                   THEN pool'.free_list = n
                   ELSE /\ pool'.free_list = pool.free_list
                        /\ \E prev \in FreeOffsets(pool, mem) :
                              NextOf(mem, prev) = b /\ NextOf(mem', prev) = n
                /\ pool'.free_space = pool.free_space - (r + HEADER_SIZE)
                /\ pool'.allocated = pool.allocated + r]_vars

\* a block has been split and its remainder, a node that was not on the list
\* before, has inherited a successor
WitC26 ==
    /\ last.op = "alloc" /\ last.ok
    /\ LET b == HdrOfPtr(pool, last.ptr)
           n == b + HEADER_SIZE + Size(mem, b)
       IN /\ n \in FreeOffsets(pool, mem)
          /\ \A i \in 1 .. Len(snap.list) : snap.list[i][1] # n
          /\ \E i \in 1 .. Len(snap.list) : snap.list[i][1] = b
          /\ NextOf(mem, n) # POOL_NULL_OFFSET
          /\ pool.free_space = snap.free_space - (Size(mem, b) + HEADER_SIZE)

\* ------------------------------------------------------------------ merges
\* the free-list node that ends where the block at hdr_off begins, if any
FreePred(p, m, hdr_off) ==
    {o \in FreeOffsets(p, m) : block_end_offset_u32(o, Size(m, o)) = hdr_off}

\* the free-list node that begins where the block at hdr_off ends, if any
FreeSucc(p, m, hdr_off) ==
    {o \in FreeOffsets(p, m) : block_end_offset_u32(hdr_off, Size(m, hdr_off)) = o}

\* the first free-list node above hdr_off, or the null offset
NodeAbove(p, m, hdr_off) ==
    LET above == {o \in FreeOffsets(p, m) : o > hdr_off} IN
    IF above = {} THEN POOL_NULL_OFFSET
    ELSE CHOOSE o \in above : \A q \in above : o <= q

\* C27: an accepted pool_free moves allocated down by the declared size s of
\* the block and free_space up by s + 16 * k, k the number of physically
\* adjacent free neighbours; the surviving block grows by 16 plus the size of
\* each absorbed block and inherits the next offset of the last one absorbed.
ThmC27 ==
    [][(last'.op = "free" /\ last'.ok) =>
          LET h    == HdrOfPtr(pool, last'.ptr)
              s    == Size(mem, h)
              pred == FreePred(pool, mem, h)
              succ == FreeSucc(pool, mem, h)
              k    == Cardinality(pred) + Cardinality(succ)
              surv == IF pred = {} THEN h ELSE CHOOSE o \in pred : TRUE
              psz  == IF pred = {} THEN 0
                      ELSE Size(mem, surv) + HEADER_SIZE
              ssz  == IF succ = {} THEN 0
                      ELSE HEADER_SIZE + Size(mem, CHOOSE o \in succ : TRUE)
          IN /\ k \in {0, 1, 2}
             /\ pool'.allocated = pool.allocated - s
             /\ pool'.free_space = pool.free_space + s + HEADER_SIZE * k
             /\ IsFree(mem', surv)
             /\ Size(mem', surv) = psz + s + ssz
             /\ NextOf(mem', surv) = IF succ = {} THEN NodeAbove(pool, mem, h)
                                     ELSE NextOf(mem, CHOOSE o \in succ : TRUE)
             /\ surv \in FreeOffsets(pool', mem')]_vars

\* the middle one of three blocks has been freed between a free predecessor
\* and a free successor: one free block spans the pool
WitC27 ==
    /\ last.op = "free" /\ last.ok
    /\ last.ptr = BufAddr + 48
    /\ pool.pool_size = 96
    /\ pool.free_list = 0
    /\ Size(mem, 0) = 80
    /\ NextOf(mem, 0) = POOL_NULL_OFFSET
    /\ Size(mem, 32) = 48
    /\ pool.allocated = 0
    /\ pool.free_space = 80

\* C28: after every pool_alloc and pool_free no free block ends where another
\* free block begins.
ThmC28 ==
    /\ \A a \in FreeOffsets(pool, mem) :
          block_end_offset_u32(a, Size(mem, a)) \notin FreeOffsets(pool, mem)
    /\ \A a \in LiveBlocks(pool, mem) :
          LET e == block_end_offset_u32(a, Size(mem, a)) IN
          (IsFree(mem, a) /\ e \in LiveBlocks(pool, mem)) => ~IsFree(mem, e)

\* the second of three blocks has been freed after the first while the third
\* is in use: the two freed blocks are one free block of 48 bytes
WitC28 ==
    /\ last.op = "free" /\ last.ok
    /\ last.ptr = BufAddr + 48
    /\ BufAddr + 80 \in issued
    /\ FreeList(pool, mem) = <<(<<0, 48>>)>>
    /\ IsFree(mem, 32)
    /\ ~IsFree(mem, 64)

\* --------------------------------------------------- the blocks of the pool
\* pool_init has succeeded on the pool
Initialised ==
    ~(\/ last.op \in {"init_call", "init_call_null_pool", "init_null_pool"}
      \/ last.op = "init" /\ ~last.ok)

\* x + u for a size_t x and a 32-bit u, with the carry
Add64(x, u) ==
    LET lo == AddU32(x.lo, u) IN
    SizeT(x.hi + (IF ULt(lo, x.lo) THEN 1 ELSE 0), lo)

\* the end offset of the block at off, as a size_t
End64(m, off) == Add64(Add64(SizeT(0, off), HEADER_SIZE), Size(m, off))

\* a header of the pool lies at off, inside the bytes of the buffer
HdrAt(p, m, off) ==
    /\ off >= 0
    /\ off + HEADER_SIZE <= MaxPoolSize
    /\ p.pool_size_hi > 0 \/ off + HEADER_SIZE <= p.pool_size
    /\ Magic(m, off) = POOL_MAGIC

\* the blocks met from offset off on, each beginning where the one before
\* ends, in at most n steps
RECURSIVE WalkFrom(_, _, _, _)
WalkFrom(p, m, off, n) ==
    IF n = 0 \/ ~HdrAt(p, m, off) THEN {}
    ELSE LET e == End64(m, off) IN
         {off} \cup (IF e.hi = 0 THEN WalkFrom(p, m, e.lo, n - 1) ELSE {})

Walk(p, m) == WalkFrom(p, m, 0, MaxPoolUnits)

\* the walk from offset 0 ends at pool_size exactly
Tiles(p, m) ==
    \E off \in Walk(p, m) : End64(m, off) = SizeT(p.pool_size_hi, p.pool_size)

\* C29: the live blocks partition the usable region: the first is at offset
\* 0, each ends where the next begins and the last ends at pool_size, so
\* allocated + free_space + 16 * (number of live blocks) = pool_size.
ClaimC29 ==
    Initialised =>
        /\ 0 \in Walk(pool, mem)
        /\ Tiles(pool, mem)
        /\ Add64(Add64(SizeT(0, pool.allocated), pool.free_space),
                 HEADER_SIZE * Cardinality(Walk(pool, mem)))
             = SizeT(pool.pool_size_hi, pool.pool_size)

\* C30: in every state reached by pool_init, pool_alloc and pool_free every
\* live block header, free or allocated, passes header_is_sane: magic tag,
\* offset a multiple of 8, size at least 16, end within pool_size, next null
\* or a multiple of 8 with next + 16 within pool_size.
ClaimC30 ==
    Initialised =>
        \A off \in LiveBlocks(pool, mem) : header_is_sane(pool, mem, off, off)

\* ------------------------------------------------------- orders of frees
\* pool_free of the pointers of ptrs, one call after the other
RECURSIVE FreeSeq(_, _, _)
FreeSeq(p, m, ptrs) ==
    IF ptrs = <<>> THEN [pool |-> p, mem |-> m]
    ELSE LET r == pool_free(p, m, Head(ptrs)) IN FreeSeq(r.pool, r.mem, Tail(ptrs))

\* the orders in which the pointers of S can be freed
RECURSIVE Orders(_)
Orders(S) ==
    IF S = {} THEN {<<>>}
    ELSE UNION {{<<x>> \o s : s \in Orders(S \ {x})} : x \in S}

\* allocated, free_space and the free list after the frees of ptrs
AfterFrees(ptrs) ==
    LET r == FreeSeq(pool, mem, ptrs) IN Summary(r.pool, r.mem)

\* C31: freeing a set of currently allocated pointers in any order ends in
\* the same allocated, free_space and free list.
ThmC31 ==
    \A S \in SUBSET issued :
        LET first == AfterFrees(CHOOSE s \in Orders(S) : TRUE) IN
        \A t \in Orders(S) : AfterFrees(t) = first

\* three blocks are in use whose frees, in any order, leave one free block
WitC31 ==
    /\ issued = {BufAddr + 16, BufAddr + 48, BufAddr + 80}
    /\ pool.allocated = 48
    /\ FreeList(pool, mem) = <<>>
    /\ \A s \in Orders(issued) :
          AfterFrees(s) = [allocated |-> 0, free_space |-> 80, list |-> <<(<<0, 80>>)>>]

\* ------------------------------------------------------------------ reuse
\* a node of the free list holds request bytes
FitsIn(list, request) == \E i \in 1 .. Len(list) : UGe(list[i][2], request)

\* the sizes 1 .. n as pool_alloc sees them: pool_alloc(r) is the search for
\* alloc_request(r), which is its own request
RequestsUpTo(n) == {alloc_request(SizeT(0, r)) : r \in 1 .. n}

\* C32: right after pool_free accepts a pointer whose block had payload size
\* s, a free block of size at least s covers that block and pool_alloc(r)
\* succeeds for every 0 < r <= s; and after an alloc and the free of its
\* pointer every size that fitted before the pair still allocates, so an
\* alternation of alloc and free never starts to fail.
ThmC32 ==
    [][(last'.op = "free" /\ last'.ok) =>
          LET h == HdrOfPtr(pool, last'.ptr)
              s == Size(mem, h)
          IN /\ \E o \in FreeOffsets(pool', mem') :
                   /\ o <= h
                   /\ Size(mem', o) >= s
                   /\ o + HEADER_SIZE + Size(mem', o) >= h + HEADER_SIZE + s
             /\ \A q \in RequestsUpTo(s) : pool_alloc(pool', mem', SizeT(0, q)).ret # NULL
             /\ (last.op = "alloc" /\ last.ok /\ last.ptr = last'.ptr) =>
                   \A q \in RequestsUpTo(Capacity(pool)) :
                       FitsIn(snap.list, q) =>
                          pool_alloc(pool', mem', SizeT(0, q)).ret # NULL]_vars

\* a block allocated from a pool with another block in use has been freed
\* at once and the pool is as before the pair
WitC32 ==
    /\ last.op = "free" /\ last.ok
    /\ snap # NoSnap
    /\ issued # {}
    /\ Summary(pool, mem) = snap
    /\ Len(snap.list) >= 1
    /\ pool_alloc(pool, mem, SizeT(0, snap.list[1][2])).ret # NULL

\* ------------------------------------------------- pointers out of bounds
\* C33 as stated: pool_free refuses, with no state change, every ptr that is
\* not strictly after pool_start + 16 and before the end of the pool.
ClaimC33 ==
    [][(last'.op = "free"
          /\ ~(last'.ptr > pool.pool_start + HEADER_SIZE
                 /\ last'.ptr < pool.pool_start + pool.pool_size)) =>
          (~last'.ok /\ pool' = pool /\ mem' = mem /\ issued' = issued)]_vars

\* C33 as amended: pool_free refuses, with no state change, every ptr below
\* pool_start + 16 and every ptr at or past the end of the pool; pool_start +
\* 16 itself is the payload of the first block and is accepted.
ThmC33 ==
    [][(last'.op = "free"
          /\ ~(last'.ptr >= pool.pool_start + HEADER_SIZE
                 /\ last'.ptr < pool.pool_start + pool.pool_size)) =>
          (~last'.ok /\ pool' = pool /\ mem' = mem /\ issued' = issued)]_vars

\* pool_free has refused a pointer 16 bytes past the end of a pool whose
\* first block is in use
WitC33 ==
    /\ last.op = "free" /\ ~last.ok
    /\ last.ptr = pool.pool_start + pool.pool_size + HEADER_SIZE
    /\ pool.pool_start + HEADER_SIZE \in issued
    /\ ~IsFree(mem, 0)
    /\ pool.allocated > 0

\* ----------------------------------------------------------- bounded walks
\* C34: pool_alloc and pool_free leave their loops after a bounded number of
\* free-list nodes, also on a free list whose next offsets form a cycle of
\* headers that each pass header_is_sane.
ClaimC34 ==
    /\ \A size \in AllocSizes : AllocReturns(pool, mem, size)
    /\ \A ptr \in FreePtrs : FreeReturns(pool, mem, ptr)

\* the walk of the diagnostics (freelist.c:23-39, 56-61, 76-82) from cur_off:
\* the offsets of its next n iterations; it stops at the null offset and at
\* an offset hdr_from_offset refuses
RECURSIVE DiagWalk(_, _, _, _)
DiagWalk(p, m, cur_off, n) ==
    IF n = 0 \/ cur_off = POOL_NULL_OFFSET \/ hdr_from_offset(p, cur_off) = NoHdr
    THEN <<>>
    ELSE <<cur_off>> \o DiagWalk(p, m, NextOf(m, cur_off), n - 1)

\* more iterations than there are offsets a header can lie at
WalkFuel == MaxPoolUnits + 1

\* the walk does not end: it is on a cycle
DiagCyclic(p, m) == Len(DiagWalk(p, m, p.free_list, WalkFuel)) = WalkFuel

\* the nodes the walk keeps coming back to
CycleNodes(p, m) ==
    LET w == DiagWalk(p, m, p.free_list, 2 * WalkFuel) IN
    {w[i] : i \in (WalkFuel + 1) .. Len(w)}

\* freelist_count leaves its loop: the walk ends, or its counter, which moves
\* only at a node with the free flag (freelist.c:59), moves on every lap
CountLeaves(p, m) ==
    DiagCyclic(p, m) => \E o \in CycleNodes(p, m) : IsFree(m, o)

\* freelist_total_free and freelist_dump leave their loops: the walk ends, or
\* their counter, which moves at every node (freelist.c:81, 38), moves on
\* every lap
TotalLeaves(p, m) == DiagCyclic(p, m) => CycleNodes(p, m) # {}

\* no stray write has happened
Clean == last.op \notin {"tangle", "unflag"}

\* A stray write of the caller stores the offset to, a free-list node at or
\* below off, in the next field of the free-list header at off.
Tangle(off, to) ==
    /\ to <= off
    /\ {off, to} \subseteq FreeOffsets(pool, mem)
    /\ NextOf(mem, off) # to
    /\ mem' = SetNext(mem, off, to)
    /\ last' = [op |-> "tangle", size |-> SizeT(0, to), ptr |-> pool.pool_start + off,
                ok |-> TRUE]
    /\ snap' = NoSnap
    /\ UNCHANGED <<pool, issued, lock, thr>>

\* A stray write of the caller clears the flags word of the free-list header
\* at off.
Unflag(off) ==
    /\ off \in FreeOffsets(pool, mem)
    /\ IsFree(mem, off)
    /\ mem' = SetFlags(mem, off, 0)
    /\ last' = [op |-> "unflag", size |-> SizeT(0, 0), ptr |-> pool.pool_start + off,
                ok |-> TRUE]
    /\ snap' = NoSnap
    /\ UNCHANGED <<pool, issued, lock, thr>>

\* the allocator is called until the first stray write; from then on only
\* the diagnostics are of interest
AllocClean(size) == Clean /\ Alloc(size)

FreeClean(ptr) == Clean /\ FreeHeld(ptr)

NextDiag ==
    \/ \E size \in AllocSizes : AllocClean(size)
    \/ \E ptr \in FreePtrs : FreeClean(ptr)
    \/ \E off, to \in HdrOffsets : Tangle(off, to)
    \/ \E off \in HdrOffsets : Unflag(off)

SpecDiag == InitStomp /\ [][NextDiag]_vars

\* C35: freelist_count, freelist_total_free and freelist_dump leave their
\* loops within their sentinel number of iterations on every free list, a
\* cyclic one included, whatever the free flags of the nodes on the cycle.
ClaimC35 ==
    /\ CountLeaves(pool, mem)
    /\ TotalLeaves(pool, mem)

\* ------------------------------------------------- offsets near 2^32
\* values of a next field: every multiple of 4 from below zero (as 32-bit
\* values these are 0xFFFFFFE8 .. 0xFFFFFFFC) to beyond the largest pool, and
\* the two aligned values on either side of 2^31
NextValues ==
    {4 * k : k \in (-6) .. (2 * MaxPoolUnits + 4)} \cup {2147483640, -2147483647 - 1}

\* the pool after pool_init, its first header holding nx in its next field
InitSane ==
    \E size \in InitSizes, nx \in NextValues :
        LET r == pool_init(BufAddr, SizeT(0, size)) IN
        /\ pool = r.pool
        /\ mem = SetNext(r.mem, 0, nx)
        /\ issued = {}
        /\ last = [op |-> "next", size |-> SizeT(0, nx), ptr |-> NULL, ok |-> TRUE]
        /\ snap = NoSnap
        /\ lock = {}
        /\ thr = [t \in Threads |-> IdleThread]

\* header_is_sane(pool, first header, 0)
SaneCall ==
    /\ last.op = "next"
    /\ last' = [last EXCEPT !.op = "sane", !.ok = header_is_sane(pool, mem, 0, 0)]
    /\ UNCHANGED <<pool, mem, issued, snap, lock, thr>>

\* hdr_from_offset(pool, first->next)
FromOffsetCall ==
    /\ last.op = "next"
    /\ last' = [last EXCEPT !.op = "from_offset",
                            !.ok = hdr_from_offset(pool, NextOf(mem, 0)) # NoHdr]
    /\ UNCHANGED <<pool, mem, issued, snap, lock, thr>>

NextSane == SaneCall \/ FromOffsetCall

SpecSane == InitSane /\ [][NextSane]_vars

\* a header at the 32-bit offset x lies inside the pool: x + 16 <= pool_size
\* with the sum taken without wrap-around
HeaderInPool(p, x) == x >= 0 /\ x + HEADER_SIZE <= p.pool_size

\* C36: header_is_sane accepts a header only if its next field is the null
\* offset or the offset of a header inside the pool, and hdr_from_offset
\* yields a header only for an offset whose header lies inside the pool, for
\* every 32-bit value, 0xFFFFFFF0 and 0xFFFFFFF8 included.
ClaimC36 ==
    /\ last.op = "sane" /\ last.ok =>
          last.size.lo = POOL_NULL_OFFSET \/ HeaderInPool(pool, last.size.lo)
    /\ last.op = "from_offset" /\ last.ok => HeaderInPool(pool, last.size.lo)

\* ------------------------------------ diagnostics over damaged headers
\* the free-flagged nodes reached from the head that pass header_is_sane
SaneFreeNodes(p, m) ==
    {i \in 1 .. Len(FreeList(p, m)) :
        LET off == FreeList(p, m)[i][1] IN
        IsFree(m, off) /\ header_is_sane(p, m, off, off)}

RECURSIVE SizeSum(_, _)
SizeSum(list, S) ==
    IF S = {} THEN 0
    ELSE LET i == CHOOSE j \in S : TRUE IN list[i][2] + SizeSum(list, S \ {i})

\* C37: freelist_count and freelist_total_free leave out every reachable node
\* whose header fails the sanity predicate: the count is the number of sane
\* free-flagged nodes and the total is the sum of their sizes.
ClaimC37 ==
    /\ freelist_count(pool, mem) = Cardinality(SaneFreeNodes(pool, mem))
    /\ freelist_total_free(pool, mem)
         = SizeSum(FreeList(pool, mem), SaneFreeNodes(pool, mem))

\* ------------------------------------------------------ long free lists
\* Pools whose free list has about as many nodes as freelist_dump lists
\* (freelist_count and freelist_total_free walk the same lists under a bound
\* of FreelistSentinel nodes).  A
\* free node of 16 bytes and the allocated block that keeps it from its
\* neighbour take 64 bytes together.
LongMost == DumpSentinel + 50
LongLeast == DumpSentinel - 3
LongPoolSize == 2 * (HEADER_SIZE + MIN_ALLOC_SIZE) * LongMost

\* k calls of pool_alloc(pool, 16), one after the other
RECURSIVE AllocTimes(_, _, _)
AllocTimes(p, m, k) ==
    IF k = 0 THEN [pool |-> p, mem |-> m]
    ELSE IF k = 1 THEN LET r == pool_alloc(p, m, SizeT(0, MIN_ALLOC_SIZE))
                       IN [pool |-> r.pool, mem |-> r.mem]
    ELSE LET h == AllocTimes(p, m, k \div 2)
         IN IF h.pool.allocated >= 0 THEN AllocTimes(h.pool, h.mem, k - (k \div 2))
            ELSE h

\* payload address of the i-th block with an odd position: blocks lie 32
\* bytes apart
OddBlock(i) == BufAddr + 2 * (HEADER_SIZE + MIN_ALLOC_SIZE) * i
               + (HEADER_SIZE + MIN_ALLOC_SIZE) + HEADER_SIZE

\* pool_free of the odd blocks b, b - 1, .. a, in this order
RECURSIVE FreeDown(_, _, _, _)
FreeDown(p, m, a, b) ==
    IF a > b THEN [pool |-> p, mem |-> m]
    ELSE IF a = b THEN LET r == pool_free(p, m, OddBlock(a))
                       IN [pool |-> r.pool, mem |-> r.mem]
    ELSE LET mid == (a + b) \div 2
             u == FreeDown(p, m, mid + 1, b)
         IN IF u.pool.allocated >= 0 THEN FreeDown(u.pool, u.mem, a, mid) ELSE u

\* pool_init on a zero-filled buffer of LongPoolSize bytes at memory, filled
\* with blocks of 16 bytes
LongFull(memory) ==
    LET r == pool_init(memory, SizeT(0, LongPoolSize))
        m0 == [i \in 0 .. (LongPoolSize \div 4) - 1 |-> IF i < 4 THEN r.mem[i] ELSE 0]
    IN AllocTimes(r.pool, m0, 2 * LongMost)

\* the same after the topmost LongLeast odd blocks were freed, the highest
\* first: LongLeast free nodes
LongBase(memory) ==
    LET full == LongFull(memory)
    IN FreeDown(full.pool, full.mem, LongMost - LongLeast, LongMost - 1)

InitLong ==
    LET r == LongBase(BufAddr) IN
    /\ pool = r.pool
    /\ mem = r.mem
    /\ issued = {BufAddr + (HEADER_SIZE + MIN_ALLOC_SIZE) * j + HEADER_SIZE :
                    j \in 0 .. (2 * LongMost - 1)}
                \ {OddBlock(i) : i \in (LongMost - LongLeast) .. (LongMost - 1)}
    /\ last = [op |-> "free", size |-> SizeT(0, 0),
               ptr |-> OddBlock(LongMost - LongLeast), ok |-> TRUE]
    /\ snap = NoSnap
    /\ lock = {}
    /\ thr = [t \in Threads |-> IdleThread]

\* the caller frees the next odd block down
LongFree ==
    /\ last.op = "free"
    /\ pool.free_list # HEADER_SIZE + MIN_ALLOC_SIZE
    /\ Free(BufAddr + pool.free_list - 2 * (HEADER_SIZE + MIN_ALLOC_SIZE) + HEADER_SIZE)

\* one iteration of the loop of freelist_dump (freelist.c:23-39) from the
\* loop state st: cur_off, count, and whether the loop was left by break
dump_body(p, m, st) ==
    IF st.brk \/ ~(st.cur_off # POOL_NULL_OFFSET /\ st.count < DumpSentinel) THEN st
    ELSE LET cur == hdr_from_offset(p, st.cur_off) IN
         IF cur = NoHdr THEN [st EXCEPT !.brk = TRUE]
         ELSE [cur_off |-> NextOf(m, cur), count |-> st.count + 1, brk |-> FALSE]

\* k iterations of it
RECURSIVE dump_loop(_, _, _, _)
dump_loop(p, m, st, k) ==
    IF k = 0 THEN st
    ELSE IF k = 1 THEN dump_body(p, m, st)
    ELSE LET h == dump_loop(p, m, st, k \div 2)
         IN IF h.count >= 0 THEN dump_loop(p, m, h, k - (k \div 2)) ELSE h

\* the loop state at which freelist_dump leaves its loop: count moves on
\* every iteration, so there are at most DumpSentinel of them
dump_exit(p, m) ==
    dump_loop(p, m, [cur_off |-> p.free_list, count |-> 0, brk |-> FALSE], DumpSentinel)

\* a call of freelist_dump(&pool): size holds the number of blocks printed,
\* ptr the offset at which the loop was left, ok whether the warning was
\* printed (freelist.c:41-43)
DumpCall ==
    /\ last.op = "free"
    /\ LET x == dump_exit(pool, mem) IN
       last' = [op |-> "dump", size |-> SizeT(0, x.count), ptr |-> x.cur_off,
                ok |-> x.count >= DumpSentinel]
    /\ UNCHANGED <<pool, mem, issued, snap, lock, thr>>

NextLong == LongFree \/ DumpCall

SpecLong == InitLong /\ [][NextLong]_vars

\* every node of these pools holds 16 bytes
LongNodesOf(p) == p.free_space \div MIN_ALLOC_SIZE

\* C38: on an uncorrupted pool the sentinel bound cuts no walk short:
\* freelist_dump prints every node of the free list and leaves its loop at
\* the end of the list, and it prints the corruption warning only when it
\* left the loop before the end of the list.
ClaimC38 ==
    last.op = "dump" =>
        /\ last.size.lo = LongNodesOf(pool)
        /\ last.ptr = POOL_NULL_OFFSET
        /\ last.ok => last.ptr # POOL_NULL_OFFSET

\* the pools are as built: n free nodes of 16 bytes and the rest allocated
LongPoolsSound ==
    /\ pool.free_space + pool.allocated = MIN_ALLOC_SIZE * 2 * LongMost
    /\ LongNodesOf(pool) \in LongLeast .. LongMost
    /\ pool.free_list = OddBlock(LongMost - LongNodesOf(pool)) - BufAddr - HEADER_SIZE

\* the warning is printed although the walk reached the end of the list
DumpWarnsAtEnd == last.op = "dump" /\ last.ok /\ last.ptr = POOL_NULL_OFFSET

\* the walk is cut before the end of the list
DumpCut == last.op = "dump" /\ last.ptr # POOL_NULL_OFFSET

\* ---------------------------------------------------------- pool_destroy
\* mutant: destroy also clears the first block header of the buffer
pool_destroy_clears(p, m) ==
    [pool |-> [pool_start |-> NULL, pool_size |-> 0, pool_size_hi |-> 0,
               free_list |-> POOL_NULL_OFFSET, allocated |-> 0, free_space |-> 0],
     mem  |-> WriteHdr(m, 0, 0, 0, 0, 0)]

\* pool_destroy on pool p over buffer m: the pool and the buffer it leaves.
\* pool_size is a size_t: both halves are set to 0.
pool_destroy(p, m) ==
    [pool |-> [p EXCEPT !.pool_start = NULL, !.pool_size = 0, !.pool_size_hi = 0,
                        !.free_list = POOL_NULL_OFFSET, !.allocated = 0,
                        !.free_space = 0],
     mem  |-> m]

\* the pool has not been destroyed: its mutex is valid
Alive == last.op # "destroy"

\* a call of pool_destroy(&pool); the caller keeps the pointers it holds
Destroy ==
    /\ Alive
    /\ LET r == pool_destroy(pool, mem) IN
       /\ pool' = r.pool
       /\ mem' = r.mem
    /\ last' = [op |-> "destroy", size |-> SizeT(0, 0), ptr |-> NULL, ok |-> TRUE]
    /\ snap' = Summary(pool, mem)
    /\ UNCHANGED <<issued, lock, thr>>

\* calls on a live pool; a call after pool_destroy locks a destroyed mutex,
\* which is undefined, so the machine makes none
AllocAlive(size) == Alive /\ Alloc(size)

FreeAlive(ptr) == Alive /\ FreeHeld(ptr)

NextLife ==
    \/ \E size \in AllocSizes : AllocAlive(size)
    \/ \E ptr \in FreePtrs : FreeAlive(ptr)
    \/ Destroy

SpecLife == InitStomp /\ [][NextLife]_vars

\* C39: pool_destroy sets pool_start to NULL, pool_size to 0, the free-list
\* head to the null offset and allocated and free_space to 0, and leaves
\* every word of the caller's buffer, so every block header, as it was.
ThmC39 ==
    [][last'.op = "destroy" /\ last.op # "destroy" =>
        /\ pool' = [pool_start |-> NULL, pool_size |-> 0, pool_size_hi |-> 0,
                    free_list |-> POOL_NULL_OFFSET, allocated |-> 0, free_space |-> 0]
        /\ mem' = mem
        /\ \A off \in LiveBlocks(pool, mem) :
              /\ Magic(mem', off) = Magic(mem, off)
              /\ Size(mem', off) = Size(mem, off)
              /\ NextOf(mem', off) = NextOf(mem, off)
              /\ Flags(mem', off) = Flags(mem, off)]_vars

\* a pool with one block out and a free block behind it was destroyed: the
\* two headers are still in the buffer
WitC39 ==
    /\ last.op = "destroy"
    /\ pool.pool_start = NULL /\ pool.pool_size = 0
    /\ issued = {BufAddr + 16}
    /\ snap.allocated = 16 /\ snap.list = <<(<<32, 32>>)>>
    /\ Magic(mem, 0) = POOL_MAGIC /\ ~IsFree(mem, 0)
    /\ Magic(mem, 32) = POOL_MAGIC /\ IsFree(mem, 32) /\ Size(mem, 32) = 32

====
